---- MODULE Spec2Model ----
(***************************************************************************)
(* A model of github.com/google/winops, package storage: the Device and    *)
(* Partition values and the operations Search, New, DetectPartitions,      *)
(* SelectPartition, Wipe, Partition, Dismount and Eject as each of the     *)
(* three backends (darwin: diskutil, linux: lsblk/parted, windows: the     *)
(* storage management API and PowerShell) implements them.                 *)
(*                                                                         *)
(* Sizes are counted in units of 256 bytes, the greatest common divisor of *)
(* the size constants of the package, so that every size fits a TLC        *)
(* integer.  Errors are modelled by the set of sentinel errors that        *)
(* errors.Is finds in the returned chain; a panic is a separate outcome.   *)
(***************************************************************************)
EXTENDS Integers, Sequences, FiniteSets, TLC

VARIABLES
    backend,   \* the build target: "darwin", "linux" or "windows"
    dev,       \* the Device value the caller holds
    disk,      \* what the operating system holds for the disk (ground truth)
    pre,       \* dev as it was when the last operation was called
    ret,       \* the last operation: its name, outcome, error chain, commands
    found,     \* what the last Search or New returned
    api,       \* the event API value a subscriber holds (fake or WindowsEvent)
    seen       \* what the subscriber was handed since it subscribed

vars == <<backend, dev, disk, pre, ret, found, api, seen>>

----------------------------------------------------------------------------
(* Bounds of the model. *)

MaxParts == 2      \* partitions on the disk and in a Device literal
MaxDevs == 2       \* devices one backend enumeration lists

(* Program constants, in units of 256 bytes. *)

maxWinFAT32Size == 119720087    \* 30648342272 bytes
maxPartSize == maxWinFAT32Size
efiPartitionSize == 819200      \* 209715200 bytes
partAlignment == 16384         \* 4194304 bytes
partedOffset == 8192            \* "4096s": 4096 sectors of 512 bytes
eightGB == 33554432             \* 8589934592 bytes
bigDisk == 480509952            \* 123010547712 bytes, the disk of TestNew
fourGB == eightGB \div 2

Backends == {"darwin", "linux", "windows"}

(* glstor.PartitionStyle; UnknownStyle is the zero value. *)
UnknownStyle == "UnknownStyle"
MbrStyle == "MbrStyle"
GptStyle == "GptStyle"

(* FileSystem *)
NTFS == "NTFS"
ExFAT == "exFAT"
FAT == "FAT"
FAT32 == "FAT32"
APFS == "APFS"
UnknownFS == "Unknown"

(* The sentinel errors of the package. *)
errDetectDisk == "errDetectDisk"
errDisk == "errDisk"
errEmpty == "errEmpty"
errInput == "errInput"
errNoMatch == "errNoMatch"
errPartition == "errPartition"
errRemoval == "errRemoval"
errUnmarshal == "errUnmarshal"
errWipe == "errWipe"
errDiskutil == "errDiskutil"
errLsblk == "errLsblk"
errPartRead == "errPartRead"
errFile == "errFile"
errSudo == "errSudo"
errDetectVol == "errDetectVol"
errPowershell == "errPowershell"
errNoOutput == "errNoOutput"
errDriveLetter == "errDriveLetter"
errOSResource == "errOSResource"
errMount == "errMount"
errNotMounted == "errNotMounted"
errFormat == "errFormat"
errUnsupportedFileSystem == "errUnsupportedFileSystem"
errBackend == "errBackend"   \* an error of an external library, returned as is

(* partStyles that takes an unlisted string for a GUID partition table. *)
partStyles_GptDefault(s) ==
    CASE s = "dos" -> MbrStyle
      [] s = "FDisk_partition_scheme" -> MbrStyle
      [] s = "MBR" -> MbrStyle
      [] OTHER -> GptStyle

(* partStyles: the partition-style strings of the backends. *)
partStyles(s) ==
    CASE s = "dos" -> MbrStyle
      [] s = "gpt" -> GptStyle
      [] s = "GPT" -> GptStyle
      [] s = "MBR" -> MbrStyle
      [] s = "GUID_partition_scheme" -> GptStyle
      [] s = "FDisk_partition_scheme" -> MbrStyle
      [] OTHER -> UnknownStyle

(* fileSystems: the filesystem strings of the backends. *)
fileSystems(s) ==
    CASE s = "vfat" -> FAT32
      [] s = "XINT13" -> FAT
      [] s = "FAT32" -> FAT32
      [] s = "FAT32 XINT13" -> FAT32
      [] s = "System" -> FAT32
      [] s = "Basic" -> FAT32
      [] s = "IFS" -> NTFS
      [] s = "Windows_NTFS" -> NTFS
      [] s = "Windows_FAT_32" -> FAT32
      [] s = "Microsoft Basic Data" -> FAT32
      [] s = "EFI" -> FAT32
      [] s = "Apple_APFS" -> APFS
      [] OTHER -> UnknownFS

----------------------------------------------------------------------------
(* Values. *)

ID == "d1"
PATH == "/dev/d1"

(* Device{} *)
ZeroDevice ==
    [id |-> "", path |-> "", removable |-> FALSE, size |-> 0, make |-> "",
     model |-> "", partStyle |-> UnknownStyle, partitions |-> <<>>]

(* Partition{} *)
ZeroPartition ==
    [disk |-> "", id |-> "", path |-> "", mount |-> "", label |-> "",
     fileSystem |-> "", size |-> 0]

(* The outcomes of one backend call: it succeeds ("ok"), the command or    *)
(* call returns an error ("err"), it returns bytes that do not decode      *)
(* ("bad"), it returns a listing that decodes and holds nothing ("empty"), *)
(* or its output carries the error text of a cmdlet ("sig").               *)
Modes == {"err", "bad", "empty", "sig"}

(* The calls cmds and then the backend call cmd (with its argument). *)
CallA(cmds, cmd, arg) == Append(cmds, [cmd |-> cmd, arg |-> arg])
Call(cmds, cmd) == CallA(cmds, cmd, "")

(* The outcomes, other than success, the caller of a backend call tells    *)
(* apart: every call can return an error; the output of a listing is       *)
(* decoded; the output of a PowerShell cmdlet is searched for its error.   *)
ModesOf(cmd) ==
    CASE cmd \in {"diskutil list", "diskutil info", "lsblk", "lsblk -d"} -> {"err", "bad", "empty"}
      [] cmd \in {"GetDisks", "GetPartitions", "GetVolumes"} -> {"err", "empty"}
      [] cmd \in {"Set-Partition", "Remove-PartitionAccessPath"} -> {"err", "sig"}
      [] cmd = "Get-Volume" -> {"err", "sig", "empty", "bad"}
      [] cmd = "Block.Drive" -> {"err", "bad"}
      [] OTHER -> {"err"}

(* The outcome of the call issued after the calls cmds. *)
Outcome(cmds, flt) == IF Len(cmds) + 1 = flt.at THEN flt.mode ELSE "ok"

(* What an operation leaves: the Device, the disk, the calls made so far,  *)
(* the outcome ("nil", "err" or "panic") and the sentinels of the chain.   *)
Ok(d, k, c) == [dev |-> d, disk |-> k, cmds |-> c, out |-> "nil", chain |-> {}]
Err(d, k, c, e) == [dev |-> d, disk |-> k, cmds |-> c, out |-> "err", chain |-> e]
Panic(d, k, c) == [dev |-> d, disk |-> k, cmds |-> c, out |-> "panic", chain |-> {}]

(* strings.ToUpper on the labels of the model. *)
ToUpper(label) == IF label = "usb" THEN "USB" ELSE label

(* strings.Contains(s, sub) on the strings of the model: the only mount    *)
(* paths that contain a partition identifier are the ones ioutil.TempDir   *)
(* makes out of it.                                                        *)
Contains(s, sub) == sub = "" \/ s = sub \/ s = "/tmp/" \o sub

----------------------------------------------------------------------------
(* The disk as the operating system holds it: its size and its partitions, *)
(* each with the identifier the system gave it, the type or filesystem     *)
(* string the backend reports, its mount point or drive letter, its label, *)
(* its size and (windows) whether it has a volume access path.             *)

DiskPart(id, fs, mount, label, size) ==
    [id |-> id, fs |-> fs, mount |-> mount, label |-> label, size |-> size,
     vol |-> TRUE]

(* The disk with the mount point of every partition released. *)
Unmounted(k) ==
    [k EXCEPT !.parts = [i \in 1..Len(k.parts) |-> [k.parts[i] EXCEPT !.mount = ""]]]

(* The disk with the mount point m released. *)
Released(k, m) ==
    [k EXCEPT !.parts = [i \in 1..Len(k.parts) |->
        IF k.parts[i].mount = m THEN [k.parts[i] EXCEPT !.mount = ""] ELSE k.parts[i]]]

(* The disk without partitions. *)
Cleared(k) == [k EXCEPT !.parts = <<>>]

----------------------------------------------------------------------------
(* darwin: storage_darwin.go *)

(* diskutil list -plist physical <id>: one Partition per listed partition. *)
DarwinPartitions(k) ==
    [i \in 1..Len(k.parts) |->
        [disk |-> "", id |-> k.parts[i].id, path |-> "/dev/" \o k.parts[i].id,
         mount |-> k.parts[i].mount, label |-> k.parts[i].label,
         fileSystem |-> fileSystems(k.parts[i].fs), size |-> k.parts[i].size]]

DarwinDetectPartitions(d, k, c, flt) ==
    IF d.id = "" THEN Err(d, k, c, {errInput})
    ELSE LET o == Outcome(c, flt)
             c1 == Call(c, "diskutil list")
         IN  CASE o = "err" -> Err(d, k, c1, {errDiskutil})
               [] o = "bad" -> Err(d, k, c1, {errUnmarshal})
               \* pDisk.AllDisksAndPartitions[0] of an empty slice
               [] o = "empty" -> Panic(d, k, c1)
               [] OTHER ->
                    IF Len(k.parts) < 1 THEN Ok(d, k, c1)
                    ELSE Ok([d EXCEPT !.partitions = DarwinPartitions(k)], k, c1)

(* DarwinWipe that leaves the partition style of the Device in place. *)
DarwinWipe_KeepsStyle(d, k, c, flt) ==
    IF d.id = "" THEN Err(d, k, c, {errInput})
    ELSE LET c1 == Call(c, "diskutil erasedisk")
         IN  IF Outcome(c, flt) = "err" THEN Err(d, k, c1, {errDiskutil})
             ELSE Ok([d EXCEPT !.partitions = <<>>], Cleared(k), c1)

(* diskutil erasedisk FAT32 %noformat% GPT <id> *)
DarwinWipe(d, k, c, flt) ==
    IF d.id = "" THEN Err(d, k, c, {errInput})
    ELSE LET c1 == Call(c, "diskutil erasedisk")
         IN  IF Outcome(c, flt) = "err" THEN Err(d, k, c1, {errDiskutil})
             ELSE Ok([d EXCEPT !.partStyle = GptStyle, !.partitions = <<>>],
                     Cleared(k), c1)

(* diskutil partitionDisk <id> 1 GPT FAT32 <label> 100%: an EFI partition  *)
(* and one partition over the rest of the disk, formatted and mounted      *)
(* unless the label is %noformat%.                                         *)
DarwinPartitionDisk(k, id, lblParam) ==
    [k EXCEPT !.parts =
        << DiskPart(id \o "s1", "EFI", "", "EFI", efiPartitionSize),
           DiskPart(id \o "s2", "Microsoft Basic Data",
                    IF lblParam = "%noformat%" THEN "" ELSE "/Volumes/" \o lblParam,
                    IF lblParam = "%noformat%" THEN "" ELSE lblParam,
                    k.size - efiPartitionSize) >>]

(* diskutil eraseVolume free free <partition> *)
DarwinEraseVolume(k, pid) ==
    [k EXCEPT !.parts = SelectSeq(k.parts, LAMBDA p : p.id # pid)]

DarwinPartition(d, k, c, flt, label) ==
    IF d.id = "" THEN Err(d, k, c, {errInput})
    ELSE LET lblParam == IF label = "" THEN "%noformat%" ELSE ToUpper(label)
             c1 == Call(c, "diskutil partitionDisk")
             k1 == DarwinPartitionDisk(k, d.id, lblParam)
             c2 == Call(c1, "diskutil eraseVolume")
             k2 == DarwinEraseVolume(k1, d.id \o "s1")
             d2 == [d EXCEPT !.partStyle = GptStyle]
             r  == DarwinDetectPartitions(d2, k2, c2, flt)
         IN  IF Outcome(c, flt) = "err" THEN Err(d, k, c1, {errDiskutil})
             ELSE IF Outcome(c1, flt) = "err" THEN Err(d, k1, c2, {errRemoval})
             ELSE IF r.out = "err" THEN Err(r.dev, r.disk, r.cmds, {errPartition})
             ELSE r

(* diskutil unmountDisk force <id> *)
DarwinDismount(d, k, c, flt) ==
    IF d.id = "" THEN Err(d, k, c, {errInput})
    ELSE LET c1 == Call(c, "diskutil unmountDisk")
         IN  IF Outcome(c, flt) = "err" THEN Err(d, k, c1, {errDiskutil})
             ELSE Ok([d EXCEPT !.partitions =
                        [i \in 1..Len(d.partitions) |->
                            [d.partitions[i] EXCEPT !.mount = ""]]],
                     Unmounted(k), c1)

(* DarwinEject that clears the Device before diskutil has answered. *)
DarwinEject_ClearsFirst(d, k, c, flt) ==
    IF d.id = "" THEN Err(d, k, c, {errInput})
    ELSE LET c1 == Call(c, "diskutil eject")
         IN  IF Outcome(c, flt) = "err" THEN Err(ZeroDevice, k, c1, {errDiskutil})
             ELSE Ok(ZeroDevice, Unmounted(k), c1)

(* diskutil eject <id> *)
DarwinEject(d, k, c, flt) ==
    IF d.id = "" THEN Err(d, k, c, {errInput})
    ELSE LET c1 == Call(c, "diskutil eject")
         IN  IF Outcome(c, flt) = "err" THEN Err(d, k, c1, {errDiskutil})
             ELSE Ok(ZeroDevice, Unmounted(k), c1)

----------------------------------------------------------------------------
(* linux: storage_darwin.go, from line 364 *)

(* lsblk -o ... -b -J /dev/<id>: the block devices of type "part". *)
LinuxPartitions(k) ==
    [i \in 1..Len(k.parts) |->
        [disk |-> "", id |-> k.parts[i].id, path |-> "/dev/" \o k.parts[i].id,
         mount |-> k.parts[i].mount, label |-> k.parts[i].label,
         fileSystem |-> fileSystems(k.parts[i].fs), size |-> k.parts[i].size]]

LinuxDetectPartitions(d, k, c, flt) ==
    IF d.id = "" THEN Err(d, k, c, {errInput})
    ELSE LET o == Outcome(c, flt)
             c1 == Call(c, "lsblk")
             \* "empty": {"blockdevices": []}
             partList == IF o = "empty" THEN <<>> ELSE LinuxPartitions(k)
         IN  CASE o = "err" -> Err(d, k, c1, {errLsblk})
               [] o = "bad" -> Err(d, k, c1, {errUnmarshal})
               [] OTHER ->
                    IF Len(partList) < 1 THEN Ok(d, k, c1)
                    ELSE Ok([d EXCEPT !.partitions = partList], k, c1)

(* The loop of Dismount from partition i on. *)
RECURSIVE LinuxDismountFrom(_, _, _, _, _)
LinuxDismountFrom(d, k, c, flt, i) ==
    IF i > Len(d.partitions) THEN Ok(d, k, c)
    ELSE LET part == d.partitions[i]
             c1 == CallA(c, "umount", part.mount)
             k1 == Released(k, part.mount)
             rm == Contains(part.mount, part.id)
             c2 == IF rm THEN Call(c1, "os.RemoveAll") ELSE c1
             d2 == [d EXCEPT !.partitions[i].mount = ""]
         IN  IF part.mount = "" THEN LinuxDismountFrom(d, k, c, flt, i + 1)
             ELSE IF Outcome(c, flt) = "err" THEN Err(d, k, c1, {errSudo})
             ELSE IF rm /\ Outcome(c1, flt) = "err" THEN Err(d, k1, c2, {errFile})
             ELSE LinuxDismountFrom(d2, k1, c2, flt, i + 1)

(* Dismount that detects the partitions again before it releases them. *)
LinuxDismount_Redetects(d, k, c, flt) ==
    LET r == LinuxDetectPartitions(d, k, c, flt)
    IN  IF r.out = "err" THEN r
        ELSE IF Len(r.dev.partitions) < 1 THEN Ok(r.dev, r.disk, r.cmds)
        ELSE LinuxDismountFrom(r.dev, r.disk, r.cmds, flt, 1)

LinuxDismount(d, k, c, flt) ==
    IF Len(d.partitions) < 1 THEN Ok(d, k, c)
    ELSE LinuxDismountFrom(d, k, c, flt, 1)

(* Wipe that erases whatever Dismount returned. *)
LinuxWipe_EraseAnyway(d, k, c, flt) ==
    IF d.path = "" THEN Err(d, k, c, {errInput})
    ELSE LET r  == LinuxDismount(d, k, c, flt)
             c1 == Call(r.cmds, "wipefs")
         IN  IF Outcome(r.cmds, flt) = "err" THEN Err(r.dev, r.disk, c1, {errWipe})
             ELSE Ok([r.dev EXCEPT !.partStyle = UnknownStyle, !.partitions = <<>>],
                     Cleared(r.disk), c1)

(* sudo wipefs -a <path> *)
LinuxWipe(d, k, c, flt) ==
    IF d.path = "" THEN Err(d, k, c, {errInput})
    ELSE LET r  == LinuxDismount(d, k, c, flt)
             c1 == Call(r.cmds, "wipefs")
         IN  IF r.out = "err" THEN Err(r.dev, r.disk, r.cmds, {errDisk})
             ELSE IF Outcome(r.cmds, flt) = "err" THEN Err(r.dev, r.disk, c1, {errWipe})
             ELSE Ok([r.dev EXCEPT !.partStyle = UnknownStyle, !.partitions = <<>>],
                     Cleared(r.disk), c1)

(* sudo parted --script <path> -- mklabel gpt mkpart <label> fat32 4096s   *)
(* 100% set 1 msftdata on: one partition from sector 4096 to the end of    *)
(* the disk, with no filesystem yet.                                       *)
LinuxParted(k, label) ==
    [k EXCEPT !.parts = << DiskPart(ID \o "1", "", "", "", k.size - partedOffset) >>]

LinuxPartition(d, k, c, flt, label) ==
    IF d.path = "" THEN Err(d, k, c, {errInput})
    ELSE IF Len(d.partitions) # 0 THEN Err(d, k, c, {errDisk})
    ELSE LET c1 == Call(c, "parted")
         IN  IF Outcome(c, flt) = "err" THEN Err(d, k, c1, {errSudo})
             ELSE Ok([d EXCEPT !.partStyle = GptStyle,
                               !.partitions =
                                  << [ZeroPartition EXCEPT
                                        !.id = d.id \o "1",
                                        !.path = "/dev/" \o d.id \o "1",
                                        !.fileSystem = FAT32,
                                        !.size = d.size] >>],
                     LinuxParted(k, label), c1)

(* org.freedesktop.UDisks2 over D-Bus: SystemBus, the Block.Drive          *)
(* property, then Drive.PowerOff.                                          *)
LinuxEject(d, k, c, flt) ==
    IF d.path = "" THEN Err(d, k, c, {errInput})
    ELSE LET c1 == Call(c, "dbus.SystemBus")
             c2 == Call(c1, "Block.Drive")
             c3 == Call(c2, "Drive.PowerOff")
         IN  IF Outcome(c, flt) = "err" THEN Err(d, k, c1, {errBackend})
             ELSE IF Outcome(c1, flt) = "err" THEN Err(d, k, c2, {errBackend})
             \* dbus.Store fails: the error is formatted with %v
             ELSE IF Outcome(c1, flt) = "bad" THEN Err(d, k, c2, {})
             ELSE IF Outcome(c2, flt) = "err" THEN Err(d, k, c3, {errBackend})
             ELSE Ok(d, Unmounted(k), c3)

----------------------------------------------------------------------------
(* windows: storage_windows.go *)

(* What a Partition method leaves: as for a Device, with the Partition.    *)
POk(p, k, c) == [part |-> p, disk |-> k, cmds |-> c, out |-> "nil", chain |-> {}]
PErr(p, k, c, e) == [part |-> p, disk |-> k, cmds |-> c, out |-> "err", chain |-> e]

(* The drive letters freeDrives probes, in its order (the model keeps the  *)
(* first two of "FGHIJKLMNOPQRSTUVWXYZ").                                  *)
DriveLetters == <<"F", "G">>

(* freeDrives: the letters no volume of the system holds. *)
freeDrives(k) ==
    SelectSeq(DriveLetters,
              LAMBDA l : l \notin k.busy /\ \A i \in 1..Len(k.parts) : k.parts[i].mount # l)

(* freeDrive that hands out the first free letter whatever was requested. *)
freeDrive_FirstFree(requested, available) ==
    IF Len(available) = 0 THEN <<"", errOSResource>>
    ELSE <<available[1], "">>

(* freeDrive: <<letter, sentinel>>, the sentinel "" when there is no error. *)
freeDrive(requested, available) ==
    IF Len(available) = 0 THEN <<"", errOSResource>>
    ELSE IF requested # ""
         THEN IF \E i \in 1..Len(available) : available[i] = requested
              THEN <<requested, "">>
              ELSE <<"", errDriveLetter>>
         ELSE <<available[1], "">>

(* Set-Partition -DiskNumber .. -PartitionNumber .. -NewDriveLetter ..     *)
SetPartition(k, pid, letter) ==
    [k EXCEPT !.parts = [i \in 1..Len(k.parts) |->
        IF k.parts[i].id = pid THEN [k.parts[i] EXCEPT !.mount = letter] ELSE k.parts[i]]]

WindowsMount(part, k, c, flt, letter) ==
    IF part.mount # "" THEN POk(part, k, c)
    ELSE IF part.fileSystem = UnknownFS THEN POk(part, k, c)
    ELSE LET free == freeDrive(letter, freeDrives(k))
             available == free[1]
             c1 == Call(c, "Set-Partition")
             o  == Outcome(c, flt)
         IN  IF free[2] # "" THEN PErr(part, k, c, {errInput})
             ELSE IF o = "err" THEN PErr(part, k, c1, {errPowershell})
             ELSE IF o = "sig" THEN PErr(part, k, c1, {errDriveLetter})
             ELSE POk([part EXCEPT !.mount = available],
                      SetPartition(k, part.id, available), c1)

(* Get-Volume <letter> | select FileSystemLabel | ConvertTo-Json *)
VolumeLabel(k, letter) ==
    IF \E i \in 1..Len(k.parts) : k.parts[i].mount = letter
    THEN k.parts[CHOOSE i \in 1..Len(k.parts) : k.parts[i].mount = letter].label
    ELSE ""

addLabel(part, k, c, flt) ==
    IF part.mount = "" THEN POk(part, k, c)
    ELSE LET c1 == Call(c, "Get-Volume")
             o  == Outcome(c, flt)
         IN  CASE o = "err" -> PErr(part, k, c1, {errPowershell})
               [] o = "sig" -> PErr(part, k, c1, {errDetectVol})
               [] o = "empty" -> PErr(part, k, c1, {errNoOutput})
               [] o = "bad" -> PErr(part, k, c1, {errUnmarshal})
               [] OTHER -> POk([part EXCEPT !.label = VolumeLabel(k, part.mount)], k, c1)

(* The access paths the API reports for a partition: its drive letter and  *)
(* the path of its volume.                                                 *)
VolumePath(gp) == "\\\\?\\Volume" \o gp.id
AccessPaths(gp) ==
    (IF gp.mount # "" THEN << gp.mount \o ":\\" >> ELSE <<>>)
        \o (IF gp.vol THEN << VolumePath(gp) >> ELSE <<>>)

(* strings.HasPrefix(p, `\\`) on the access paths of the model. *)
HasVolumePrefix(gp, p) == gp.vol /\ p = VolumePath(gp)

(* The loop of DetectPartitions over parts.Partitions, from entry i on,    *)
(* with the partitions collected so far.                                   *)
RECURSIVE WindowsDetectFrom(_, _, _, _, _, _, _, _)
(* The loop of DetectPartitions returning the error of Mount. *)
WindowsDetectFrom_MountFatal(d, k, c, flt, assignLetter, listing, i, partitions) ==
    IF i > Len(listing) THEN Ok([d EXCEPT !.partitions = partitions], k, c)
    ELSE LET gp == listing[i]
             aps == AccessPaths(gp)
             withPrefix == {j \in 1..Len(aps) : HasVolumePrefix(gp, aps[j])}
             path == IF withPrefix = {} THEN ""
                     ELSE aps[CHOOSE j \in withPrefix : \A j2 \in withPrefix : j2 <= j]
             p0 == [ZeroPartition EXCEPT !.disk = k.name, !.id = gp.id, !.path = path,
                                         !.mount = gp.mount, !.size = gp.size]
             c1 == Call(c, "GetVolumes")
             o  == Outcome(c, flt)
             p1 == [p0 EXCEPT !.fileSystem = fileSystems(gp.fs)]
             m  == IF Len(listing) = 1 /\ assignLetter
                   THEN WindowsMount(p1, k, c1, flt, "")
                   ELSE POk(p1, k, c1)
             l  == addLabel(m.part, m.disk, m.cmds, flt)
         IN  IF Len(aps) < 1
             THEN WindowsDetectFrom(d, k, c, flt, assignLetter, listing, i + 1, partitions)
             ELSE IF o = "err" THEN Err(d, k, c1, {errBackend})
             \* windowsGetVolumes: no volume has the path
             ELSE IF o = "empty" \/ path = "" THEN Err(d, k, c1, {errDetectVol})
             ELSE IF m.out = "err" THEN Err(d, m.disk, m.cmds, m.chain)
             ELSE WindowsDetectFrom(d, l.disk, l.cmds, flt, assignLetter, listing, i + 1,
                                    Append(partitions, l.part))

WindowsDetectFrom(d, k, c, flt, assignLetter, listing, i, partitions) ==
    IF i > Len(listing) THEN Ok([d EXCEPT !.partitions = partitions], k, c)
    ELSE LET gp == listing[i]
             aps == AccessPaths(gp)
             withPrefix == {j \in 1..Len(aps) : HasVolumePrefix(gp, aps[j])}
             path == IF withPrefix = {} THEN ""
                     ELSE aps[CHOOSE j \in withPrefix : \A j2 \in withPrefix : j2 <= j]
             p0 == [ZeroPartition EXCEPT !.disk = k.name, !.id = gp.id, !.path = path,
                                         !.mount = gp.mount, !.size = gp.size]
             c1 == Call(c, "GetVolumes")
             o  == Outcome(c, flt)
             p1 == [p0 EXCEPT !.fileSystem = fileSystems(gp.fs)]
             m  == IF Len(listing) = 1 /\ assignLetter
                   THEN WindowsMount(p1, k, c1, flt, "")
                   ELSE POk(p1, k, c1)
             l  == addLabel(m.part, m.disk, m.cmds, flt)
         IN  IF Len(aps) < 1
             THEN WindowsDetectFrom(d, k, c, flt, assignLetter, listing, i + 1, partitions)
             ELSE IF o = "err" THEN Err(d, k, c1, {errBackend})
             \* windowsGetVolumes: no volume has the path
             ELSE IF o = "empty" \/ path = "" THEN Err(d, k, c1, {errDetectVol})
             ELSE WindowsDetectFrom(d, l.disk, l.cmds, flt, assignLetter, listing, i + 1,
                                    Append(partitions, l.part))

WindowsDetectPartitions(d, k, c, flt, assignLetter) ==
    IF d.id = "" THEN Err(d, k, c, {errInput})
    ELSE LET c1 == Call(c, "Connect")
             c2 == Call(c1, "GetPartitions")
             o2 == Outcome(c1, flt)
             listing == IF o2 = "empty" THEN <<>> ELSE k.parts
         IN  IF Outcome(c, flt) = "err" THEN Err(d, k, c1, {errBackend})
             ELSE IF o2 = "err" THEN Err(d, k, c2, {errBackend})
             ELSE WindowsDetectFrom(d, k, c2, flt, assignLetter, listing, 1, <<>>)

(* windowsGetDisks: the sentinel of its error, "" when it returns a disk. *)
windowsGetDisks(o) ==
    IF o = "err" THEN errBackend ELSE IF o = "empty" THEN errDetectDisk ELSE ""

(* Wipe that updates the Device as soon as the disk is cleared. *)
WindowsWipe_UpdatesAfterClear(d, k, c, flt) ==
    IF d.id = "" THEN Err(d, k, c, {errInput})
    ELSE LET c1 == Call(c, "Connect")
             c2 == Call(c1, "GetDisks")
             g  == windowsGetDisks(Outcome(c1, flt))
             c3 == Call(c2, "Clear")
             c4 == Call(c3, "ConvertStyle")
             d3 == [d EXCEPT !.partitions = <<>>]
         IN  IF Outcome(c, flt) = "err" THEN Err(d, k, c1, {errBackend})
             ELSE IF g # "" THEN Err(d, k, c2, {g})
             ELSE IF Outcome(c2, flt) = "err" THEN Err(d, k, c3, {errBackend})
             ELSE IF Outcome(c3, flt) = "err" THEN Err(d3, Cleared(k), c4, {errBackend})
             ELSE Ok([d3 EXCEPT !.partStyle = GptStyle], Cleared(k), c4)

WindowsWipe(d, k, c, flt) ==
    IF d.id = "" THEN Err(d, k, c, {errInput})
    ELSE LET c1 == Call(c, "Connect")
             c2 == Call(c1, "GetDisks")
             g  == windowsGetDisks(Outcome(c1, flt))
             c3 == Call(c2, "Clear")
             c4 == Call(c3, "ConvertStyle")
         IN  IF Outcome(c, flt) = "err" THEN Err(d, k, c1, {errBackend})
             ELSE IF g # "" THEN Err(d, k, c2, {g})
             ELSE IF Outcome(c2, flt) = "err" THEN Err(d, k, c3, {errBackend})
             ELSE IF Outcome(c3, flt) = "err" THEN Err(d, Cleared(k), c4, {errBackend})
             ELSE Ok([d EXCEPT !.partitions = <<>>, !.partStyle = GptStyle],
                     Cleared(k), c4)

(* disk.CreatePartition(size, useMaximumSize, 0, partAlignment, ...): one  *)
(* partition of the size asked for, or of all the space after the          *)
(* alignment, with a volume that has no filesystem and no drive letter.    *)
CreatePartition(k, size, useMax) ==
    [k EXCEPT !.parts =
        << DiskPart("1", "", "", "", IF useMax THEN k.size - partAlignment ELSE size) >>]

(* PartitionWithOptions that keeps an explicit size equal to that of the    *)
(* device.                                                                 *)
WindowsPartitionWithOptions_UpToSize(d, k, c, flt, label, size) ==
    IF d.id = "" THEN Err(d, k, c, {errInput})
    ELSE IF Len(d.partitions) # 0 THEN Err(d, k, c, {errDisk})
    ELSE LET useMax == ~(size > 0 /\ size <= d.size)
             size1 == IF size > 0 /\ ~(size <= d.size) THEN 0 ELSE size
             c1 == Call(c, "Connect")
             c2 == Call(c1, "GetDisks")
             g  == windowsGetDisks(Outcome(c1, flt))
             c3 == CallA(c2, "CreatePartition", <<size1, useMax>>)
             k3 == CreatePartition(k, size1, useMax)
             d3 == [d EXCEPT !.partStyle = GptStyle]
             r  == WindowsDetectPartitions(d3, k3, c3, flt, FALSE)
         IN  IF Outcome(c, flt) = "err" THEN Err(d, k, c1, {errBackend})
             ELSE IF g # "" THEN Err(d, k, c2, {g})
             ELSE IF Outcome(c2, flt) = "err" THEN Err(d, k, c3, {errBackend})
             ELSE IF r.out = "err" THEN Err(r.dev, r.disk, r.cmds, {errDisk})
             ELSE r

WindowsPartitionWithOptions(d, k, c, flt, label, size) ==
    IF d.id = "" THEN Err(d, k, c, {errInput})
    ELSE IF Len(d.partitions) # 0 THEN Err(d, k, c, {errDisk})
    ELSE LET useMax == ~(size > 0 /\ size < d.size)
             size1 == IF size > 0 /\ ~(size < d.size) THEN 0 ELSE size
             c1 == Call(c, "Connect")
             c2 == Call(c1, "GetDisks")
             g  == windowsGetDisks(Outcome(c1, flt))
             c3 == CallA(c2, "CreatePartition", <<size1, useMax>>)
             k3 == CreatePartition(k, size1, useMax)
             d3 == [d EXCEPT !.partStyle = GptStyle]
             r  == WindowsDetectPartitions(d3, k3, c3, flt, FALSE)
         IN  IF Outcome(c, flt) = "err" THEN Err(d, k, c1, {errBackend})
             ELSE IF g # "" THEN Err(d, k, c2, {g})
             ELSE IF Outcome(c2, flt) = "err" THEN Err(d, k, c3, {errBackend})
             ELSE IF r.out = "err" THEN Err(r.dev, r.disk, r.cmds, {errDisk})
             ELSE r

WindowsPartition(d, k, c, flt, label) ==
    WindowsPartitionWithOptions(d, k, c, flt, label,
                                IF d.size >= maxPartSize THEN maxPartSize ELSE d.size)

(* The loop of Dismount from partition i on: part is a copy of the entry,  *)
(* so clearing part.mount leaves device.partitions as it was.              *)
RECURSIVE WindowsDismountFrom(_, _, _, _, _)
WindowsDismountFrom(d, k, c, flt, i) ==
    IF i > Len(d.partitions) THEN Ok(d, k, c)
    ELSE LET part == d.partitions[i]
             c1 == CallA(c, "Remove-PartitionAccessPath", part.mount)
             o  == Outcome(c, flt)
         IN  IF part.mount = "" THEN WindowsDismountFrom(d, k, c, flt, i + 1)
             ELSE IF o = "err" THEN Err(d, k, c1, {errPowershell})
             ELSE IF o = "sig" THEN Err(d, k, c1, {errDisk})
             ELSE WindowsDismountFrom(d, Released(k, part.mount), c1, flt, i + 1)

WindowsDismount(d, k, c, flt) ==
    IF Len(d.partitions) < 1 THEN Ok(d, k, c)
    ELSE WindowsDismountFrom(d, k, c, flt, 1)

WindowsEject(d, k, c, flt) == Ok(d, k, c)

----------------------------------------------------------------------------
(* storage.go (in storage_test.go, from line 264) and the dispatch of the  *)
(* methods each build target compiles in.                                  *)

DetectPartitions(b, d, k, c, flt, mount) ==
    CASE b = "darwin" -> DarwinDetectPartitions(d, k, c, flt)
      [] b = "linux" -> LinuxDetectPartitions(d, k, c, flt)
      [] b = "windows" -> WindowsDetectPartitions(d, k, c, flt, mount)

Wipe(b, d, k, c, flt) ==
    CASE b = "darwin" -> DarwinWipe(d, k, c, flt)
      [] b = "linux" -> LinuxWipe(d, k, c, flt)
      [] b = "windows" -> WindowsWipe(d, k, c, flt)

Partition(b, d, k, c, flt, label) ==
    CASE b = "darwin" -> DarwinPartition(d, k, c, flt, label)
      [] b = "linux" -> LinuxPartition(d, k, c, flt, label)
      [] b = "windows" -> WindowsPartition(d, k, c, flt, label)

Dismount(b, d, k, c, flt) ==
    CASE b = "darwin" -> DarwinDismount(d, k, c, flt)
      [] b = "linux" -> LinuxDismount(d, k, c, flt)
      [] b = "windows" -> WindowsDismount(d, k, c, flt)

Eject(b, d, k, c, flt) ==
    CASE b = "darwin" -> DarwinEject(d, k, c, flt)
      [] b = "linux" -> LinuxEject(d, k, c, flt)
      [] b = "windows" -> WindowsEject(d, k, c, flt)

(* SelectPartition: the result of the method with the Partition returned   *)
(* (ZeroPartition for a nil pointer).                                      *)
SelectPartition_LastMatch(b, d, k, c, flt, minSize, fs) ==
    LET r == DetectPartitions(b, d, k, c, flt, FALSE)
        available == SelectSeq(r.dev.partitions, LAMBDA part : part.size >= minSize)
        matching == {i \in 1..Len(available) : available[i].fileSystem = fs}
        With(x, e) == [dev |-> r.dev, disk |-> r.disk, cmds |-> r.cmds,
                       out |-> IF e = "" THEN "nil" ELSE "err",
                       chain |-> IF e = "" THEN {} ELSE {e}, part |-> x]
    IN  IF r.out = "panic"
        THEN [dev |-> r.dev, disk |-> r.disk, cmds |-> r.cmds, out |-> "panic",
              chain |-> {}, part |-> ZeroPartition]
        ELSE IF r.out = "err" THEN With(ZeroPartition, errDisk)
        ELSE IF Len(r.dev.partitions) < 1 THEN With(ZeroPartition, errEmpty)
        ELSE IF Len(available) = 0 THEN With(ZeroPartition, errPartition)
        ELSE IF fs = "" THEN With(available[Len(available)], "")
        ELSE IF matching # {}
             THEN With(available[CHOOSE i \in matching : \A j \in matching : i >= j], "")
        ELSE With(ZeroPartition, errNoMatch)

SelectPartition_SizeAfterFs(b, d, k, c, flt, minSize, fs) ==
    LET r == DetectPartitions(b, d, k, c, flt, FALSE)
        available == SelectSeq(r.dev.partitions, LAMBDA part : part.size >= minSize)
        matching == {i \in 1..Len(available) : available[i].fileSystem = fs}
        anyFs == \E i \in 1..Len(r.dev.partitions) : r.dev.partitions[i].fileSystem = fs
        With(x, e) == [dev |-> r.dev, disk |-> r.disk, cmds |-> r.cmds,
                       out |-> IF e = "" THEN "nil" ELSE "err",
                       chain |-> IF e = "" THEN {} ELSE {e}, part |-> x]
    IN  IF r.out = "panic"
        THEN [dev |-> r.dev, disk |-> r.disk, cmds |-> r.cmds, out |-> "panic",
              chain |-> {}, part |-> ZeroPartition]
        ELSE IF r.out = "err" THEN With(ZeroPartition, errDisk)
        ELSE IF Len(r.dev.partitions) < 1 THEN With(ZeroPartition, errEmpty)
        ELSE IF Len(available) = 0 /\ fs = "" THEN With(ZeroPartition, errPartition)
        ELSE IF fs = "" THEN With(available[1], "")
        ELSE IF matching # {}
             THEN With(available[CHOOSE i \in matching : \A j \in matching : i <= j], "")
        ELSE With(ZeroPartition, IF anyFs THEN errPartition ELSE errNoMatch)

SelectPartition(b, d, k, c, flt, minSize, fs) ==
    LET r == DetectPartitions(b, d, k, c, flt, FALSE)
        available == SelectSeq(r.dev.partitions, LAMBDA part : part.size >= minSize)
        matching == {i \in 1..Len(available) : available[i].fileSystem = fs}
        With(x, e) == [dev |-> r.dev, disk |-> r.disk, cmds |-> r.cmds,
                       out |-> IF e = "" THEN "nil" ELSE "err",
                       chain |-> IF e = "" THEN {} ELSE {e}, part |-> x]
    IN  IF r.out = "panic"
        THEN [dev |-> r.dev, disk |-> r.disk, cmds |-> r.cmds, out |-> "panic",
              chain |-> {}, part |-> ZeroPartition]
        ELSE IF r.out = "err" THEN With(ZeroPartition, errDisk)
        ELSE IF Len(r.dev.partitions) < 1 THEN With(ZeroPartition, errEmpty)
        ELSE IF Len(available) = 0 THEN With(ZeroPartition, errPartition)
        ELSE IF fs = "" THEN With(available[1], "")
        ELSE IF matching # {}
             THEN With(available[CHOOSE i \in matching : \A j \in matching : i <= j], "")
        ELSE With(ZeroPartition, errNoMatch)

----------------------------------------------------------------------------
(* Partition.Mount and Partition.Format. A method of a Partition value     *)
(* part returns [part, disk, cmds, out, chain]: the value afterwards and   *)
(* the disk afterwards.                                                    *)

(* The partition of the disk that part describes, 0 when it is gone. *)
OnDisk(b, part, k) ==
    LET at == {i \in 1..Len(k.parts) :
                  IF b = "windows" THEN VolumePath(k.parts[i]) = part.path
                  ELSE k.parts[i].id = part.id}
    IN  IF at = {} THEN 0 ELSE CHOOSE i \in at : TRUE

(* The disk with partition pid mounted at m. *)
MountedAt(k, pid, m) ==
    [k EXCEPT !.parts = [i \in 1..Len(k.parts) |->
        IF k.parts[i].id = pid THEN [k.parts[i] EXCEPT !.mount = m] ELSE k.parts[i]]]

(* The disk with partition i formatted as fs and labelled. *)
Formatted(k, i, fs, label) ==
    [k EXCEPT !.parts[i].fs = fs, !.parts[i].label = label]

(* darwin: diskutil mount <id>; the mount point is /Volumes/<label> and    *)
(* the Partition is not updated.                                           *)
DarwinMount(part, k, c, flt, base) ==
    IF part.id = "" THEN PErr(part, k, c, {errInput})
    ELSE IF part.label = "" THEN PErr(part, k, c, {errPartition})
    ELSE LET c1 == CallA(c, "diskutil mount", part.id)
             i  == OnDisk("darwin", part, k)
         IN  IF Outcome(c, flt) = "err" \/ i = 0 THEN PErr(part, k, c1, {errDiskutil})
             ELSE POk(part,
                      IF k.parts[i].mount # "" THEN k
                      ELSE MountedAt(k, part.id, "/Volumes/" \o k.parts[i].label), c1)

(* darwin: diskutil reformat <id>, which keeps filesystem and label and    *)
(* fails on a partition that was never formatted.                          *)
DarwinFormat(part, k, c, flt, label) ==
    IF part.id = "" THEN PErr(part, k, c, {errFormat})
    ELSE LET c1 == CallA(c, "diskutil reformat", part.id)
             i  == OnDisk("darwin", part, k)
         IN  IF Outcome(c, flt) = "err" \/ i = 0 THEN PErr(part, k, c1, {errDiskutil})
             ELSE IF k.parts[i].label = "" /\ k.parts[i].mount = ""
                  THEN PErr(part, k, c1, {errDiskutil})
             ELSE POk(part, k, c1)

(* ioutil.TempDir(base, part.id): a new directory under base, or under the *)
(* temporary directory of the system; its random suffix is left out.       *)
MntPath(base, id) == (IF base = "" THEN "/tmp" ELSE base) \o "/" \o id

(* LinuxMount that does not record the mount path in the Partition. *)
LinuxMount_ForgetsPath(part, k, c, flt, base) ==
    IF part.mount # "" THEN POk(part, k, c)
    ELSE IF part.fileSystem = UnknownFS THEN POk(part, k, c)
    ELSE IF part.path = "" THEN PErr(part, k, c, {errInput})
    ELSE LET c1 == CallA(c, "TempDir", base)
             mntPath == MntPath(base, part.id)
             c2 == CallA(c1, "mount", mntPath)
             i  == OnDisk("linux", part, k)
         IN  IF Outcome(c, flt) = "err" THEN PErr(part, k, c1, {errNotMounted})
             ELSE IF Outcome(c1, flt) = "err" \/ i = 0 THEN PErr(part, k, c2, {errSudo})
             ELSE POk(part, MountedAt(k, part.id, mntPath), c2)

(* linux: sudo mount --options rw,users,umask=000 <path> <mntPath> *)
LinuxMount(part, k, c, flt, base) ==
    IF part.mount # "" THEN POk(part, k, c)
    ELSE IF part.fileSystem = UnknownFS THEN POk(part, k, c)
    ELSE IF part.path = "" THEN PErr(part, k, c, {errInput})
    ELSE LET c1 == CallA(c, "TempDir", base)
             mntPath == MntPath(base, part.id)
             c2 == CallA(c1, "mount", mntPath)
             i  == OnDisk("linux", part, k)
         IN  IF Outcome(c, flt) = "err" THEN PErr(part, k, c1, {errNotMounted})
             ELSE IF Outcome(c1, flt) = "err" \/ i = 0 THEN PErr(part, k, c2, {errSudo})
             ELSE POk([part EXCEPT !.mount = mntPath], MountedAt(k, part.id, mntPath), c2)

(* linux: sudo mkfs -t vfat <path>, then sudo fatlabel <path> <label> *)
LinuxFormat(part, k, c, flt, label) ==
    IF part.path = "" THEN PErr(part, k, c, {errFormat})
    ELSE LET c1 == CallA(c, "mkfs", part.path)
             c2 == CallA(c1, "fatlabel", label)
             i  == OnDisk("linux", part, k)
         IN  IF Outcome(c, flt) = "err" \/ i = 0 THEN PErr(part, k, c1, {errSudo})
             ELSE IF Outcome(c1, flt) = "err"
                  THEN PErr(part, Formatted(k, i, "vfat", ""), c2, {errSudo})
             ELSE POk(part, Formatted(k, i, "vfat", label), c2)

(* windowsFormat that also formats exFAT volumes. *)
windowsFormat_AlsoExFAT(fs) ==
    IF fs \in {FAT32, NTFS, ExFAT} THEN "" ELSE errUnsupportedFileSystem

(* windowsFormat: the filesystems the volume can be formatted with. *)
windowsFormat(fs) == IF fs \in {FAT32, NTFS} THEN "" ELSE errUnsupportedFileSystem

(* windows: FormatWithOptions(label, filesystem, mount) *)
WindowsFormatWithOptions(part, k, c, flt, label, filesystem, mount) ==
    IF part.path = "" THEN PErr(part, k, c, {errInput})
    ELSE LET c1 == Call(c, "Connect")
             c2 == CallA(c1, "GetVolumes", part.path)
             o2 == Outcome(c1, flt)
             i  == OnDisk("windows", part, k)
             c3 == CallA(c2, "Format", filesystem)
             k3 == Formatted(k, i, filesystem, label)
             m  == WindowsMount(part, k3, c3, flt, "")
         IN  IF Outcome(c, flt) = "err" THEN PErr(part, k, c1, {errBackend})
             ELSE IF o2 = "err" THEN PErr(part, k, c2, {errBackend})
             ELSE IF o2 = "empty" \/ i = 0 THEN PErr(part, k, c2, {errDetectVol})
             ELSE IF windowsFormat(filesystem) # ""
                  THEN PErr(part, k, c2, {windowsFormat(filesystem)})
             ELSE IF Outcome(c2, flt) = "err" THEN PErr(part, k, c3, {errBackend})
             ELSE IF ~mount THEN POk(part, k3, c3)
             \* the error of Mount is formatted with %v
             ELSE IF m.out = "err" THEN PErr(m.part, m.disk, m.cmds, {errMount})
             ELSE m

(* windows: Format(label) formats as FAT32 and mounts. *)
WindowsFormat(part, k, c, flt, label) ==
    WindowsFormatWithOptions(part, k, c, flt, label, FAT32, TRUE)

(* The methods the build target compiles in. *)
Mount(b, part, k, c, flt, base) ==
    CASE b = "darwin" -> DarwinMount(part, k, c, flt, base)
      [] b = "linux" -> LinuxMount(part, k, c, flt, base)
      [] b = "windows" -> WindowsMount(part, k, c, flt, base)

Format(b, part, k, c, flt, label) ==
    CASE b = "darwin" -> DarwinFormat(part, k, c, flt, label)
      [] b = "linux" -> LinuxFormat(part, k, c, flt, label)
      [] b = "windows" -> WindowsFormat(part, k, c, flt, label)

----------------------------------------------------------------------------

(* Search and New. A backend enumeration lists the devices d1, d2, ... in  *)
(* this order, each with a size, a removable flag and a partition style;   *)
(* d1 is the disk of the model and every other device has no partitions.   *)

DevName(i) == "d" \o ToString(i)
SearchSizes == {eightGB, bigDisk}

(* What each backend reports for a disk with a GUID partition table: the   *)
(* pttype column of lsblk, the Content of diskutil info, and the           *)
(* PartitionStyle number of MSFT_Disk.                                     *)
GptReport(b) ==
    CASE b = "darwin" -> "GUID_partition_scheme" [] b = "linux" -> "gpt" [] b = "windows" -> 2

Entries(b) == [size : SearchSizes, removable : BOOLEAN, style : {GptReport(b)}]
Listings(b) == UNION {[1..n -> Entries(b)] : n \in 0..MaxDevs}

(* glstor.PartitionStyle(d.PartitionStyle): the number MSFT_Disk reports   *)
(* read as a partition style (0 unknown, 1 MBR, 2 GPT).                    *)
PartitionStyle(n) ==
    CASE n = 1 -> MbrStyle [] n = 2 -> GptStyle [] OTHER -> UnknownStyle

(* The partitions the system reports for the device id, and the disk of    *)
(* the model after an operation on the device id left k1.                  *)
DiskOf(k, id) == IF id = k.name THEN k ELSE Cleared(k)
After(k, id, k1) == IF id = k.name THEN k1 ELSE k

(* What Search or New leaves: the devices returned, the disk, the calls    *)
(* made so far, the outcome and the sentinels of the chain.                *)
SOk(f, k, c) == [devs |-> f, disk |-> k, cmds |-> c, out |-> "nil", chain |-> {}]
SErr(k, c, e) == [devs |-> <<>>, disk |-> k, cmds |-> c, out |-> "err", chain |-> e]
SPanic(k, c) == [devs |-> <<>>, disk |-> k, cmds |-> c, out |-> "panic", chain |-> {}]

(* The three filters of Search: TRUE when the device is left out. *)
Skipped_BoundsExcluded(device, minSize, maxSize, removableOnly) ==
    \/ removableOnly /\ ~device.removable
    \/ device.size <= minSize
    \/ device.size >= maxSize /\ maxSize # 0

Skipped(device, minSize, maxSize, removableOnly) ==
    \/ removableOnly /\ ~device.removable
    \/ device.size < minSize
    \/ device.size > maxSize /\ maxSize # 0

(* linux *)

RECURSIVE LinuxSearchFrom(_, _, _, _, _, _, _, _, _)
LinuxSearchFrom(listing, i, fnd, k, c, flt, minSize, maxSize, removableOnly) ==
    IF i > Len(listing) THEN SOk(fnd, k, c)
    ELSE LET bd == listing[i]
             device == [id |-> DevName(i), path |-> "/dev/" \o DevName(i),
                        removable |-> bd.removable, size |-> bd.size,
                        make |-> "SanDisk", model |-> "Ultra",
                        partStyle |-> partStyles(bd.style), partitions |-> <<>>]
             r  == LinuxDetectPartitions(device, DiskOf(k, device.id), c, flt)
             k1 == After(k, device.id, r.disk)
         IN  IF r.out = "err" THEN SErr(k1, r.cmds, {errPartRead})
             ELSE LinuxSearchFrom(listing, i + 1,
                      IF Skipped(r.dev, minSize, maxSize, removableOnly)
                      THEN fnd ELSE Append(fnd, r.dev),
                      k1, r.cmds, flt, minSize, maxSize, removableOnly)

(* LinuxSearch that reports undecodable bytes as a failed detection. *)
LinuxSearch_BadAsDetect(deviceID, minSize, maxSize, removableOnly, listing, k, c, flt) ==
    LET o  == Outcome(c, flt)
        c1 == CallA(c, "lsblk -d", deviceID)
    IN  CASE o = "err" -> SErr(k, c1, {errDetectDisk})
          [] o = "bad" -> SErr(k, c1, {errDetectDisk})
          [] OTHER -> LinuxSearchFrom(IF o = "empty" THEN <<>> ELSE listing, 1, <<>>,
                                      k, c1, flt, minSize, maxSize, removableOnly)

(* lsblk -d -o ... -b -J [/dev/<deviceID>] *)
LinuxSearch(deviceID, minSize, maxSize, removableOnly, listing, k, c, flt) ==
    LET o  == Outcome(c, flt)
        c1 == CallA(c, "lsblk -d", deviceID)
    IN  CASE o = "err" -> SErr(k, c1, {errDetectDisk})
          [] o = "bad" -> SErr(k, c1, {errUnmarshal})
          [] OTHER -> LinuxSearchFrom(IF o = "empty" THEN <<>> ELSE listing, 1, <<>>,
                                      k, c1, flt, minSize, maxSize, removableOnly)

LinuxNew(deviceID, listing, k, c, flt) ==
    IF deviceID = "" THEN SErr(k, c, {errInput})
    ELSE LET r == LinuxSearch(deviceID, 0, 0, FALSE, listing, k, c, flt)
         IN  IF r.out = "err" THEN SErr(r.disk, r.cmds, {errDisk})
             ELSE IF Len(r.devs) > 1 THEN SErr(r.disk, r.cmds, {errNoMatch})
             \* devices[0] of an empty slice
             ELSE IF Len(r.devs) = 0 THEN SPanic(r.disk, r.cmds)
             ELSE SOk(<< r.devs[1] >>, r.disk, r.cmds)

(* darwin *)

(* regExPartition, ([a-zA-Z]+)\ds[0-9], on the identifiers of the model. *)
regExPartition(id) ==
    \E n \in 0..9, p \in 0..9 : id = "d" \o ToString(n) \o "s" \o ToString(p)

(* AllDisks of diskutil list: every disk followed by its first slice. *)
RECURSIVE AllDisks(_, _)
AllDisks(listing, i) ==
    IF i > Len(listing) THEN <<>>
    ELSE << DevName(i), DevName(i) \o "s1" >> \o AllDisks(listing, i + 1)

(* diskutil info -plist <deviceID>: the entry of the device, if listed. *)
DarwinNew(deviceID, listing, k, c, flt) ==
    IF deviceID = "" THEN SErr(k, c, {errInput})
    ELSE LET o  == Outcome(c, flt)
             c1 == CallA(c, "diskutil info", deviceID)
             at == {i \in 1..Len(listing) : DevName(i) = deviceID}
             pDevice == listing[CHOOSE i \in at : TRUE]
             device == [id |-> deviceID, path |-> "/dev/" \o deviceID,
                        removable |-> pDevice.removable, size |-> pDevice.size,
                        make |-> "SanDisk", model |-> "Ultra",
                        partStyle |-> partStyles(pDevice.style),
                        partitions |-> <<>>]
             r  == DarwinDetectPartitions(device, DiskOf(k, deviceID), c1, flt)
             k1 == After(k, deviceID, r.disk)
         IN  CASE o = "err" -> SErr(k, c1, {errDiskutil})
               [] o = "bad" -> SErr(k, c1, {errUnmarshal})
               \* pDevice == (plistDeviceInfo{})
               [] o = "empty" \/ at = {} -> SErr(k, c1, {errDetectDisk})
               [] OTHER ->
                    IF r.out = "panic" THEN SPanic(k1, r.cmds)
                    ELSE IF r.out = "err" THEN SErr(k1, r.cmds, {errDetectDisk})
                    ELSE SOk(<< r.dev >>, k1, r.cmds)

RECURSIVE DarwinSearchFrom(_, _, _, _, _, _, _, _, _, _)
DarwinSearchFrom(ids, i, fnd, listing, k, c, flt, minSize, maxSize, removableOnly) ==
    IF i > Len(ids) THEN SOk(fnd, k, c)
    ELSE IF regExPartition(ids[i])
    THEN DarwinSearchFrom(ids, i + 1, fnd, listing, k, c, flt,
                          minSize, maxSize, removableOnly)
    ELSE LET r == DarwinNew(ids[i], listing, k, c, flt)
         IN  IF r.out = "panic" THEN r
             ELSE IF r.out = "err" THEN SErr(r.disk, r.cmds, {errDetectDisk})
             ELSE DarwinSearchFrom(ids, i + 1,
                      IF Skipped(r.devs[1], minSize, maxSize, removableOnly)
                      THEN fnd ELSE Append(fnd, r.devs[1]),
                      listing, r.disk, r.cmds, flt, minSize, maxSize, removableOnly)

(* diskutil list -plist physical [<deviceID>] *)
DarwinSearch(deviceID, minSize, maxSize, removableOnly, listing, k, c, flt) ==
    LET o  == Outcome(c, flt)
        c1 == CallA(c, "diskutil list", deviceID)
        pDevice == IF o = "empty" THEN <<>> ELSE listing
    IN  CASE o = "err" -> SErr(k, c1, {errDiskutil})
          [] o = "bad" -> SErr(k, c1, {errUnmarshal})
          [] OTHER ->
               IF Len(pDevice) < 1 THEN SErr(k, c1, {errEmpty})
               ELSE DarwinSearchFrom(AllDisks(pDevice, 1), 1, <<>>, pDevice, k, c1, flt,
                                     minSize, maxSize, removableOnly)

(* windows *)

RECURSIVE WindowsSearchFrom(_, _, _, _, _, _, _, _, _)
WindowsSearchFrom(disks, i, fnd, k, c, flt, minSize, maxSize, removableOnly) ==
    IF i > Len(disks) THEN SOk(fnd, k, c)
    ELSE LET device == [id |-> DevName(i), path |-> "",
                        removable |-> disks[i].removable, size |-> disks[i].size,
                        make |-> "SanDisk", model |-> "Ultra",
                        partStyle |-> PartitionStyle(disks[i].style),
                        partitions |-> <<>>]
             r  == WindowsDetectPartitions(device, DiskOf(k, device.id), c, flt, TRUE)
             k1 == After(k, device.id, r.disk)
         IN  IF Skipped(device, minSize, maxSize, removableOnly)
             THEN WindowsSearchFrom(disks, i + 1, fnd, k, c, flt,
                                    minSize, maxSize, removableOnly)
             \* the error of DetectPartitions is formatted with %v
             ELSE IF r.out = "err" THEN SErr(k1, r.cmds, {})
             ELSE WindowsSearchFrom(disks, i + 1, Append(fnd, r.dev), k1, r.cmds, flt,
                                    minSize, maxSize, removableOnly)

WindowsSearch(deviceID, minSize, maxSize, removableOnly, listing, k, c, flt) ==
    LET c1 == Call(c, "Connect")
        c2 == CallA(c1, "GetDisks", deviceID)
        o2 == Outcome(c1, flt)
        g  == windowsGetDisks(IF listing = <<>> /\ o2 = "ok" THEN "empty" ELSE o2)
    IN  IF Outcome(c, flt) = "err" THEN SErr(k, c1, {errBackend})
        ELSE IF g # "" THEN SErr(k, c2, {g})
        ELSE WindowsSearchFrom(listing, 1, <<>>, k, c2, flt,
                               minSize, maxSize, removableOnly)

WindowsNew(deviceID, listing, k, c, flt) ==
    IF deviceID = "" THEN SErr(k, c, {errInput})
    ELSE LET r == WindowsSearch(deviceID, 0, 0, FALSE, listing, k, c, flt)
         IN  IF r.out = "err" THEN SErr(r.disk, r.cmds, {errDisk})
             ELSE IF Len(r.devs) > 1 THEN SErr(r.disk, r.cmds, {errNoMatch})
             \* devices[0] of an empty slice
             ELSE IF Len(r.devs) = 0 THEN SPanic(r.disk, r.cmds)
             ELSE SOk(<< r.devs[1] >>, r.disk, r.cmds)

(* The function the build target compiles in. *)
Search(b, deviceID, minSize, maxSize, removableOnly, listing, k, c, flt) ==
    CASE b = "darwin" -> DarwinSearch(deviceID, minSize, maxSize, removableOnly, listing, k, c, flt)
      [] b = "linux" -> LinuxSearch(deviceID, minSize, maxSize, removableOnly, listing, k, c, flt)
      [] b = "windows" -> WindowsSearch(deviceID, minSize, maxSize, removableOnly, listing, k, c, flt)

New(b, deviceID, listing, k, c, flt) ==
    CASE b = "darwin" -> DarwinNew(deviceID, listing, k, c, flt)
      [] b = "linux" -> LinuxNew(deviceID, listing, k, c, flt)
      [] b = "windows" -> WindowsNew(deviceID, listing, k, c, flt)

----------------------------------------------------------------------------
(* The states the model starts in: a build target, a disk, and a Device    *)
(* the caller holds for it, as Search fills it in or as a literal names it *)
(* (an empty id, an empty path, a partition list detected earlier).        *)

DiskSizes == {eightGB, maxWinFAT32Size, bigDisk}
Labels == {"", "usb"}
Kinds == {"mounted", "unmounted", "unreadable"}

(* The identifier the backend gives partition i of the disk. *)
PartId(b, i) ==
    CASE b = "darwin" -> ID \o "s" \o ToString(i)
      [] b = "linux" -> ID \o ToString(i)
      [] b = "windows" -> ToString(i)

(* The mount point or drive letter of the mounted partition i. *)
MountOf(b, i) ==
    CASE b = "darwin" -> "/Volumes/V" \o ToString(i)
      [] b = "linux" -> IF i = 1 THEN "/tmp/" \o PartId(b, i) ELSE "/mnt/p" \o ToString(i)
      [] b = "windows" -> <<"F", "G", "H", "I">>[i]

KnownFsString(b) ==
    CASE b = "darwin" -> "Windows_FAT_32" [] b = "linux" -> "vfat" [] b = "windows" -> "FAT32"

UnknownFsString(b) ==
    CASE b = "darwin" -> "Apple_HFS" [] b = "linux" -> "ext4" [] b = "windows" -> ""

(* Partition i of the disk, of the given kind. *)
InitPart(b, i, kind) ==
    DiskPart(PartId(b, i),
             IF kind = "unreadable" THEN UnknownFsString(b) ELSE KnownFsString(b),
             IF kind = "mounted" THEN MountOf(b, i) ELSE "",
             \* an HFS volume carries the name macOS gave it
             IF kind = "mounted" THEN "USB"
             ELSE IF kind = "unreadable" /\ b = "darwin" THEN "HD" ELSE "",
             IF kind = "unmounted" THEN fourGB ELSE fourGB \div 2)

Layouts(b) ==
    UNION {[1..n -> Kinds] : n \in 0..MaxParts}

LayoutParts(b, lay) == [i \in 1..Len(lay) |-> InitPart(b, i, lay[i])]

(* The Partition values a detection of these partitions yields. *)
Detected(b, parts) ==
    [i \in 1..Len(parts) |->
        [disk |-> IF b = "windows" THEN ID ELSE "",
         id |-> parts[i].id,
         path |-> IF b = "windows" THEN VolumePath(parts[i]) ELSE "/dev/" \o parts[i].id,
         mount |-> parts[i].mount,
         label |-> parts[i].label,
         fileSystem |-> fileSystems(parts[i].fs),
         size |-> parts[i].size]]

NoFault == [at |-> 0, mode |-> "err"]

(* The storage package holds no event log. *)
NoAPI == [Events |-> <<>>, cursors |-> <<>>, query |-> <<>>, eventSignalled |-> FALSE]
NoneSeen == <<>>

(* ret before any call. Besides the outcome of the last call, ret keeps    *)
(* its arguments (args), the fault that reached it (flt), how far the      *)
(* calls so far are into Wipe, Partition, DetectPartitions(false) (trip),  *)
(* and how many Partition calls returned nil since Wipe last did (since).  *)
NoCall ==
    [op |-> "none", out |-> "nil", chain |-> {}, cmds |-> <<>>,
     part |-> ZeroPartition, args |-> <<>>, flt |-> NoFault, trip |-> 0,
     since |-> 0]

Init ==
    /\ backend \in Backends
    /\ \E lay \in Layouts(backend), size \in DiskSizes,
          busy \in {{}, {"F", "G"}}, id \in {"", ID}, path \in {"", PATH},
          held \in BOOLEAN :
          \* other volumes hold the drive letters: on windows, and told
          \* apart where a letter may be assigned (at most one partition)
          /\ busy # {} => (backend = "windows" /\ Len(lay) <= 1)
          \* the windows backend never fills in the path of a Device
          /\ path # "" => backend # "windows"
          /\ disk = [name |-> ID, size |-> size, busy |-> busy,
                     parts |-> LayoutParts(backend, lay)]
          /\ dev = [id |-> id, path |-> path, removable |-> id # "",
                    size |-> IF id = "" THEN 0 ELSE size,
                    make |-> IF id = "" THEN "" ELSE "SanDisk",
                    model |-> IF id = "" THEN "" ELSE "Ultra",
                    partStyle |-> IF id = "" THEN UnknownStyle ELSE MbrStyle,
                    partitions |-> IF held THEN Detected(backend, LayoutParts(backend, lay))
                                   ELSE <<>>]
    /\ pre = dev
    /\ ret = NoCall
    /\ found = <<>>
    /\ api = NoAPI
    /\ seen = NoneSeen

----------------------------------------------------------------------------
(* The operations. *)

(* The faults that can reach an operation whose run without a fault makes  *)
(* the calls cmds.                                                         *)
FaultsOf(cmds) ==
    {NoFault} \cup {[at |-> i, mode |-> m] : <<i, m>> \in
                       {x \in (1..Len(cmds)) \X Modes : x[2] \in ModesOf(cmds[x[1]].cmd)}}

Alive == ret.out # "panic"

(* How far the calls are into Wipe, Partition, DetectPartitions(false),    *)
(* each returning nil, once the call op with args returned out.            *)
Trip(op, args, out) ==
    CASE op = "Wipe" /\ out = "nil" -> 1
      [] op = "Partition" /\ out = "nil" /\ ret.trip = 1 -> 2
      [] op = "DetectPartitions" /\ out = "nil" /\ ret.trip = 2 /\ args = <<FALSE>> -> 3
      [] OTHER -> 0

(* The Partition calls that returned nil since Wipe last returned nil (or   *)
(* since the Device was made), counted up to MaxSince, once the call op    *)
(* returned out.                                                           *)
MaxSince == 2

Since(op, out) ==
    CASE op = "Partition" /\ out = "nil" ->
              IF ret.since < MaxSince THEN ret.since + 1 ELSE MaxSince
      [] op = "Wipe" /\ out = "nil" -> 0
      [] OTHER -> ret.since

(* The call of a method of dev returns r; part is the Partition returned.  *)
Return(op, r, part, args, flt) ==
    /\ dev' = r.dev
    /\ disk' = r.disk
    /\ pre' = dev
    /\ ret' = [op |-> op, out |-> r.out, chain |-> r.chain, cmds |-> r.cmds,
               part |-> part, args |-> args, flt |-> flt,
               trip |-> Trip(op, args, r.out), since |-> Since(op, r.out)]
    /\ UNCHANGED <<backend, found, api, seen>>

DoDetectPartitions ==
    /\ Alive
    /\ \E mount \in (IF backend = "windows" THEN BOOLEAN ELSE {FALSE}) :
       \E flt \in FaultsOf(DetectPartitions(backend, dev, disk, <<>>, NoFault, mount).cmds) :
          Return("DetectPartitions", DetectPartitions(backend, dev, disk, <<>>, flt, mount),
                 ZeroPartition, <<mount>>, flt)

DoWipe ==
    /\ Alive
    /\ \E flt \in FaultsOf(Wipe(backend, dev, disk, <<>>, NoFault).cmds) :
          Return("Wipe", Wipe(backend, dev, disk, <<>>, flt), ZeroPartition, <<>>, flt)

DoPartition ==
    /\ Alive
    /\ \E label \in Labels :
       \E flt \in FaultsOf(Partition(backend, dev, disk, <<>>, NoFault, label).cmds) :
          Return("Partition", Partition(backend, dev, disk, <<>>, flt, label),
                 ZeroPartition, <<>>, flt)

DoDismount ==
    /\ Alive
    /\ \E flt \in FaultsOf(Dismount(backend, dev, disk, <<>>, NoFault).cmds) :
          Return("Dismount", Dismount(backend, dev, disk, <<>>, flt), ZeroPartition, <<>>, flt)

DoEject ==
    /\ Alive
    /\ \E flt \in FaultsOf(Eject(backend, dev, disk, <<>>, NoFault).cmds) :
          Return("Eject", Eject(backend, dev, disk, <<>>, flt), ZeroPartition, <<>>, flt)

DoSelectPartition ==
    /\ Alive
    /\ \E minSize \in {0, fourGB}, fs \in {"", FAT32} :
       \* a fault reaches only the detection SelectPartition starts with,
       \* which reads neither argument: the faults are tried with the
       \* arguments that select any partition
       \E flt \in (IF minSize = 0 /\ fs = ""
                   THEN FaultsOf(SelectPartition(backend, dev, disk, <<>>, NoFault, minSize, fs).cmds)
                   ELSE {NoFault}) :
          LET r == SelectPartition(backend, dev, disk, <<>>, flt, minSize, fs)
          IN  Return("SelectPartition", r, r.part, <<minSize, fs>>, flt)

(* Discovery: one call of Search or of New against a system whose         *)
(* enumeration is listing. A call reads nothing an earlier call left but  *)
(* the disk, so a behaviour holds one call.                                *)

SearchLayouts == {<<>>, <<"unmounted">>, <<"mounted", "unreadable">>}

InitSearch ==
    /\ backend \in Backends
    /\ \E lay \in SearchLayouts, busy \in {{}, {"F", "G"}} :
          /\ busy # {} => backend = "windows"
          /\ disk = [name |-> ID, size |-> bigDisk, busy |-> busy,
                     parts |-> LayoutParts(backend, lay)]
    /\ dev = ZeroDevice
    /\ pre = dev
    /\ ret = NoCall
    /\ found = <<>>
    /\ api = NoAPI
    /\ seen = NoneSeen

(* Search or New returns r. *)
Returned(op, r, args, flt) ==
    /\ found' = r.devs
    /\ disk' = r.disk
    /\ ret' = [op |-> op, out |-> r.out, chain |-> r.chain, cmds |-> r.cmds,
               part |-> ZeroPartition, args |-> args, flt |-> flt, trip |-> 0,
               since |-> 0]
    /\ UNCHANGED <<backend, dev, pre, api, seen>>

DoSearch ==
    /\ ret.op = "none"
    /\ \E deviceID \in {"", ID}, minSize \in {0} \cup SearchSizes,
          maxSize \in {0} \cup SearchSizes, removableOnly \in BOOLEAN,
          listing \in Listings(backend) :
       \E flt \in FaultsOf(Search(backend, deviceID, minSize, maxSize, removableOnly,
                                  listing, disk, <<>>, NoFault).cmds) :
          Returned("Search",
                   Search(backend, deviceID, minSize, maxSize, removableOnly,
                          listing, disk, <<>>, flt),
                   [deviceID |-> deviceID, minSize |-> minSize, maxSize |-> maxSize,
                    removableOnly |-> removableOnly, listing |-> listing], flt)

DoNew ==
    /\ ret.op = "none"
    /\ \E deviceID \in {"", ID}, listing \in Listings(backend) :
       \E flt \in FaultsOf(New(backend, deviceID, listing, disk, <<>>, NoFault).cmds) :
          Returned("New", New(backend, deviceID, listing, disk, <<>>, flt),
                   [deviceID |-> deviceID, minSize |-> 0, maxSize |-> 0,
                    removableOnly |-> FALSE, listing |-> listing], flt)

(* DetectPartitions on the Device that New returned returns r. *)
ReturnFound(r, flt) ==
    /\ dev' = r.dev
    /\ pre' = found[1]
    /\ disk' = r.disk
    /\ ret' = [op |-> "DetectPartitions", out |-> r.out, chain |-> r.chain,
               cmds |-> r.cmds, part |-> ZeroPartition, args |-> ret.args,
               flt |-> flt, trip |-> 0, since |-> 0]
    /\ UNCHANGED <<backend, found, api, seen>>

DoDetectFound ==
    /\ ret.op = "New" /\ ret.out = "nil"
    /\ \E mount \in (IF backend = "windows" THEN BOOLEAN ELSE {FALSE}) :
       \E flt \in FaultsOf(DetectPartitions(backend, found[1], disk, <<>>, NoFault, mount).cmds) :
          ReturnFound(DetectPartitions(backend, found[1], disk, <<>>, flt, mount), flt)

NextSearch ==
    \/ DoSearch
    \/ DoNew
    \/ DoDetectFound

SpecSearch == InitSearch /\ [][NextSearch]_vars

(* Discovery against a system that reports any partition style and any     *)
(* filesystem: the strings of the two tables and strings they do not list  *)
(* (windows reports the style as a number). The system has one disk with   *)
(* one partition.                                                          *)
StyleReports(b) ==
    IF b = "windows" THEN 0..2
    ELSE {"dos", "gpt", "GPT", "MBR", "GUID_partition_scheme", "FDisk_partition_scheme",
          "", "Apple_partition_scheme"}

FsReports ==
    {"vfat", "XINT13", "FAT32", "FAT32 XINT13", "System", "Basic", "IFS", "Windows_NTFS",
     "Windows_FAT_32", "Microsoft Basic Data", "EFI", "Apple_APFS",
     "", "ext4", "Apple_HFS", "NTFS"}

StyledListings(b) ==
    {<< [size |-> bigDisk, removable |-> TRUE, style |-> s] >> : s \in StyleReports(b)}

InitTables ==
    /\ backend \in Backends
    /\ \E fs \in FsReports :
          disk = [name |-> ID, size |-> bigDisk, busy |-> {},
                  parts |-> << DiskPart(PartId(backend, 1), fs, "", "", fourGB) >>]
    /\ dev = ZeroDevice
    /\ pre = dev
    /\ ret = NoCall
    /\ found = <<>>
    /\ api = NoAPI
    /\ seen = NoneSeen

DoSearchStyled ==
    /\ ret.op = "none"
    /\ \E listing \in StyledListings(backend) :
       \E flt \in FaultsOf(Search(backend, "", 0, 0, FALSE, listing, disk, <<>>, NoFault).cmds) :
          Returned("Search", Search(backend, "", 0, 0, FALSE, listing, disk, <<>>, flt),
                   [deviceID |-> "", minSize |-> 0, maxSize |-> 0,
                    removableOnly |-> FALSE, listing |-> listing], flt)

DoNewStyled ==
    /\ ret.op = "none"
    /\ \E listing \in StyledListings(backend) :
       \E flt \in FaultsOf(New(backend, ID, listing, disk, <<>>, NoFault).cmds) :
          Returned("New", New(backend, ID, listing, disk, <<>>, flt),
                   [deviceID |-> ID, minSize |-> 0, maxSize |-> 0,
                    removableOnly |-> FALSE, listing |-> listing], flt)

NextTables ==
    \/ DoSearchStyled
    \/ DoNewStyled
    \/ DoDetectFound

SpecTables == InitTables /\ [][NextTables]_vars

(* The methods of the Partition value that SelectPartition returned: the   *)
(* caller holds it in ret.part, and a method of the Device ends the hold.  *)
Holding ==
    /\ Alive
    /\ ret.op \in {"SelectPartition", "Mount", "Format", "FormatWithOptions"}
    /\ ret.part # ZeroPartition

(* A method of the Partition held returns r. *)
ReturnPart(op, r, args, flt) ==
    /\ disk' = r.disk
    /\ ret' = [op |-> op, out |-> r.out, chain |-> r.chain, cmds |-> r.cmds,
               part |-> r.part, args |-> args, flt |-> flt, trip |-> 0,
               since |-> ret.since]
    /\ UNCHANGED <<backend, dev, pre, found, api, seen>>

(* The letters and base directories the caller asks for: none, or on       *)
(* windows the second drive letter.                                        *)
MountArgs(b) == IF b = "windows" THEN {"", "G"} ELSE {""}

DoMount ==
    /\ Holding
    /\ \E base \in MountArgs(backend) :
       \E flt \in FaultsOf(Mount(backend, ret.part, disk, <<>>, NoFault, base).cmds) :
          ReturnPart("Mount", Mount(backend, ret.part, disk, <<>>, flt, base),
                     <<base, ret.part>>, flt)

DoFormat ==
    /\ Holding
    /\ \E label \in Labels \ {""} :
       \E flt \in FaultsOf(Format(backend, ret.part, disk, <<>>, NoFault, label).cmds) :
          ReturnPart("Format", Format(backend, ret.part, disk, <<>>, flt, label),
                     <<label, ret.part>>, flt)

(* The receiver is the Partition the caller holds or the zero value of the  *)
(* exported type Partition, whose path is empty.                           *)
DoFormatWithOptions ==
    /\ Holding
    /\ backend = "windows"
    /\ \E part \in {ret.part, ZeroPartition} :
       \E label \in Labels \ {""}, filesystem \in {NTFS, ExFAT}, mount \in BOOLEAN :
       \E flt \in FaultsOf(WindowsFormatWithOptions(part, disk, <<>>, NoFault,
                                                   label, filesystem, mount).cmds) :
          ReturnPart("FormatWithOptions",
                     WindowsFormatWithOptions(part, disk, <<>>, flt,
                                              label, filesystem, mount),
                     <<label, part, filesystem, mount>>, flt)

(* The caller prepares the Device, selects a Partition and from then on    *)
(* calls the methods of that Partition.                                    *)
Preparing == ret.op \notin {"Mount", "Format", "FormatWithOptions"}

NextMount ==
    \/ Preparing /\ DoWipe
    \/ Preparing /\ DoPartition
    \/ Preparing /\ DoDismount
    \/ Preparing /\ DoSelectPartition
    \/ DoMount
    \/ DoFormat
    \/ DoFormatWithOptions

SpecMount == Init /\ [][NextMount]_vars

Next ==
    \/ DoDetectPartitions
    \/ DoWipe
    \/ DoPartition
    \/ DoDismount
    \/ DoEject
    \/ DoSelectPartition

Spec == Init /\ [][Next]_vars

----------------------------------------------------------------------------
(* winlog/fakewinlog: FakeWindowsAPI, the in-memory implementation of      *)
(* simple.Event. A Go map that is nil is <<>>, one that is not nil is      *)
(* << m >> with m the function from its keys to their values; the          *)
(* bookmark "" is <<>> and a gob stream is << its key-value pairs >>.      *)

Channels == {"foo", "bar", "baz"}
MaxEvents == 2
MaxBatch == 3

(* The j-th event of channel k, as the tests name them. *)
Event(k, j) == k \o ToString(j)
EventsOf(k) == {Event(k, j) : j \in 1..(MaxEvents + 1)}

(* m[k] of a Go map: the zero value for a missing key; m[k] = v. *)
Get(m, k, zero) == IF k \in DOMAIN m THEN m[k] ELSE zero
Put(m, k, v) == [x \in DOMAIN m \cup {k} |-> IF x = k THEN v ELSE m[x]]

(* gob: Encode writes every entry of the map, Decode adds the entries of   *)
(* the stream to the map it decodes into.                                  *)
Encode(m) == {<<k, m[k]>> : k \in DOMAIN m}
Decode(b, m) ==
    [k \in DOMAIN m \cup {p[1] : p \in b} |->
        IF \E p \in b : p[1] = k THEN (CHOOSE p \in b : p[1] = k)[2] ELSE m[k]]

(* Subscribe that starts every subscription at the first event. *)
Subscribe_IgnoresBookmark(w, bookmark, query) ==
    LET keys == IF query = <<>> THEN {} ELSE query[1]
        signal == \E k \in keys : Len(Get(w.Events, k, <<>>)) # 0
    IN  [w EXCEPT !.query = query,
                  !.cursors = << <<>> >>,
                  !.eventSignalled = w.eventSignalled \/ signal]

(* Subscribe(bookmark, query) *)
Subscribe(w, bookmark, query) ==
    LET keys == IF query = <<>> THEN {} ELSE query[1]
        signal == \E k \in keys : Len(Get(w.Events, k, <<>>)) # 0
    IN  [w EXCEPT !.query = query,
                  !.cursors = << IF bookmark = <<>> THEN <<>>
                                 ELSE Decode(bookmark[1], <<>>) >>,
                  !.eventSignalled = w.eventSignalled \/ signal]

(* WaitForSingleObject(timeout): whether the event is signalled. *)
WaitForSingleObject(w) == w.eventSignalled

RECURSIVE RenderFrom(_, _, _, _, _)
(* RenderedEvents that reads every channel w.Events holds. *)
RenderFrom_AnyChannel(w, max, order, i, got) ==
    IF i > Len(order) THEN [api |-> w, events |-> got, done |-> TRUE, err |-> ""]
    ELSE LET k == order[i]
             s == w.Events[k]
             cur == Get(w.cursors[1], k, 0)
             rest == SubSeq(s, cur + 1, Len(s))
             lim == max - Len(got)
             available == IF Len(rest) > lim THEN SubSeq(rest, 1, lim) ELSE rest
             got1 == got \o available
             w1 == [w EXCEPT !.cursors = << Put(w.cursors[1], k, cur + Len(available)) >>]
         IN  IF Len(got1) = max
             THEN [api |-> w1, events |-> got1, done |-> FALSE, err |-> ""]
             ELSE RenderFrom(w1, max, order, i + 1, got1)

(* The loop of RenderedEvents over w.Events, which Go ranges over in an    *)
(* order of its choosing: order lists the keys, i is the next one.         *)
RenderFrom(w, max, order, i, got) ==
    IF i > Len(order) THEN [api |-> w, events |-> got, done |-> TRUE, err |-> ""]
    ELSE IF order[i] \notin w.query[1] THEN RenderFrom(w, max, order, i + 1, got)
    ELSE LET k == order[i]
             s == w.Events[k]
             cur == Get(w.cursors[1], k, 0)
             rest == SubSeq(s, cur + 1, Len(s))
             lim == max - Len(got)
             available == IF Len(rest) > lim THEN SubSeq(rest, 1, lim) ELSE rest
             got1 == got \o available
             w1 == [w EXCEPT !.cursors = << Put(w.cursors[1], k, cur + Len(available)) >>]
         IN  IF Len(got1) = max
             THEN [api |-> w1, events |-> got1, done |-> FALSE, err |-> ""]
             ELSE RenderFrom(w1, max, order, i + 1, got1)

(* RenderedEvents that reports done only once a call finds nothing. *)
RenderedEvents_DoneWhenEmpty(w, max, order) ==
    IF w.query = <<>> \/ w.cursors = <<>>
    THEN [api |-> w, events |-> <<>>, done |-> TRUE, err |-> "not open"]
    ELSE LET r == RenderFrom(w, max, order, 1, <<>>)
         IN  [r EXCEPT !.done = (Len(r.events) = 0)]

RenderedEvents(w, max, order) ==
    IF w.query = <<>> \/ w.cursors = <<>>
    THEN [api |-> w, events |-> <<>>, done |-> TRUE, err |-> "not open"]
    ELSE RenderFrom(w, max, order, 1, <<>>)

(* Bookmark(): the gob stream of the cursors; of a value that is not       *)
(* subscribed, whose cursors are nil, the stream of a map with no entry.   *)
Bookmark(w) == << Encode(IF w.cursors = <<>> THEN <<>> ELSE w.cursors[1]) >>

ResetEvent(w) == [w EXCEPT !.eventSignalled = FALSE]

(* Close that also clears the signal. *)
Close_ClearsSignal(w) ==
    [w EXCEPT !.query = <<>>, !.cursors = <<>>, !.eventSignalled = FALSE]

Close(w) == [w EXCEPT !.query = <<>>, !.cursors = <<>>]

(* Append(events): events is a map from channels to the events to add. *)
AppendEvents(w, events) ==
    [w EXCEPT !.Events =
        [k \in DOMAIN w.Events \cup DOMAIN events |->
            Get(w.Events, k, <<>>) \o Get(events, k, <<>>)],
              !.eventSignalled = TRUE]

(* The orders Go can range over the keys of a map in. *)
Orders(keys) ==
    {o \in [1..Cardinality(keys) -> keys] : \A i, j \in DOMAIN o : o[i] = o[j] => i = j}

(* The first n events of each channel in keys. *)
Log(keys, n) == [k \in keys |-> [j \in 1..n |-> Event(k, j)]]

(* What the subscriber holds: the cursors its subscription started from,   *)
(* the events each channel handed it before a resumption (before) and      *)
(* since (got), and the bookmark it took at its present position.          *)
Fresh(start) ==
    [start |-> [k \in Channels |-> Get(start, k, 0)],
     before |-> [k \in Channels |-> <<>>],
     got |-> [k \in Channels |-> <<>>],
     resumed |-> FALSE,
     bm |-> <<>>]

FakeCall(op) ==
    [op |-> op, events |-> <<>>, done |-> FALSE, err |-> "", ok |-> FALSE, max |-> 0]

InitFake ==
    /\ backend = "windows"
    /\ dev = ZeroDevice
    /\ disk = [name |-> ID, size |-> 0, busy |-> {}, parts |-> <<>>]
    /\ pre = dev
    /\ found = <<>>
    /\ \E keys \in {{}, {"foo"}, Channels}, n \in 1..MaxEvents :
          api = [Events |-> Log(keys, n), cursors |-> <<>>, query |-> <<>>,
                 eventSignalled |-> FALSE]
    /\ seen = Fresh(<<>>)
    /\ ret = FakeCall("none")

Storage == <<backend, dev, disk, pre, found>>

(* The queries of the tests, and no query; the bookmarks a caller can      *)
(* serialize that lie within the events held.                              *)
QueryArgs == {<<>>, << {"foo"} >>, << {"foo", "bar"} >>}

External(w) ==
    {<<>>} \cup {<< Encode([k \in {"foo"} |-> 1]) >> : x \in
                    {y \in {"foo"} : Len(Get(w.Events, y, <<>>)) >= 1}}

DoSubscribe ==
    /\ \E query \in QueryArgs, bookmark \in External(api) :
          /\ api' = Subscribe(api, bookmark, query)
          /\ seen' = Fresh(IF bookmark = <<>> THEN <<>> ELSE Decode(bookmark[1], <<>>))
    /\ ret' = FakeCall("Subscribe")
    /\ UNCHANGED Storage

(* Subscribe with the bookmark taken at the present position: with the     *)
(* query it was taken under the subscriber goes on from where it was.      *)
DoResume ==
    /\ seen.bm # <<>>
    /\ \E query \in QueryArgs \ {<<>>} :
          /\ api' = Subscribe(api, seen.bm[1].b, query)
          /\ seen' = IF query = seen.bm[1].query
                     THEN [seen EXCEPT !.before = [k \in Channels |-> seen.before[k] \o seen.got[k]],
                                       !.got = [k \in Channels |-> <<>>],
                                       !.resumed = TRUE]
                     ELSE Fresh(Decode(seen.bm[1].b[1], <<>>))
    /\ ret' = FakeCall("Resume")
    /\ UNCHANGED Storage

DoWaitForSingleObject ==
    /\ ret' = [FakeCall("WaitForSingleObject") EXCEPT !.ok = WaitForSingleObject(api)]
    /\ UNCHANGED <<api, seen>>
    /\ UNCHANGED Storage

(* RenderedEvents(max) returns r. *)
Rendered(r, max) ==
    /\ api' = r.api
    /\ ret' = [FakeCall("RenderedEvents") EXCEPT !.events = r.events, !.done = r.done,
                                                 !.err = r.err, !.max = max]
    /\ seen' = [seen EXCEPT
                  !.got = [k \in Channels |->
                              seen.got[k] \o SelectSeq(r.events, LAMBDA e : e \in EventsOf(k))],
                  !.bm = <<>>]
    /\ UNCHANGED Storage

DoRenderedEvents ==
    \E max \in 0..MaxBatch, order \in Orders(DOMAIN api.Events) :
        Rendered(RenderedEvents(api, max, order), max)

DoBookmark ==
    /\ ret' = FakeCall("Bookmark")
    /\ seen' = [seen EXCEPT !.bm = << [b |-> Bookmark(api), query |-> api.query] >>]
    /\ UNCHANGED api
    /\ UNCHANGED Storage

DoResetEvent ==
    /\ api' = ResetEvent(api)
    /\ ret' = FakeCall("ResetEvent")
    /\ UNCHANGED seen
    /\ UNCHANGED Storage

DoClose ==
    /\ api' = Close(api)
    /\ ret' = FakeCall("Close")
    /\ UNCHANGED seen
    /\ UNCHANGED Storage

(* Append of one more event to a channel, or of no event at all. *)
DoAppend ==
    /\ \E events \in {<<>>} \cup
            {[x \in {k} |-> << Event(k, Len(Get(api.Events, k, <<>>)) + 1) >>] : k \in
                {c \in Channels : Len(Get(api.Events, c, <<>>)) < MaxEvents}} :
          api' = AppendEvents(api, events)
    /\ ret' = FakeCall("Append")
    /\ UNCHANGED seen
    /\ UNCHANGED Storage

NextFake ==
    \/ DoSubscribe
    \/ DoResume
    \/ DoWaitForSingleObject
    \/ DoRenderedEvents
    \/ DoBookmark
    \/ DoResetEvent
    \/ DoClose
    \/ DoAppend

SpecFake == InitFake /\ [][NextFake]_vars

(* A subscriber that subscribes once and then calls RenderedEvents with    *)
(* one batch size of at least one, again until a call returns done = true; *)
(* nothing is appended meanwhile. (renderAll of the tests is another       *)
(* caller: it reads the second result as "go on" and stops after the first *)
(* call that returns false.)                                               *)
DoSubscribeOnce ==
    /\ ret.op = "none"
    /\ DoSubscribe

DoRenderBatch ==
    /\ ret.op # "none"
    /\ ~(ret.op = "RenderedEvents" /\ ret.done)
    /\ \E max \in 1..MaxBatch, order \in Orders(DOMAIN api.Events) :
          /\ ret.op = "RenderedEvents" => max = ret.max
          /\ Rendered(RenderedEvents(api, max, order), max)

NextDrain ==
    \/ DoSubscribeOnce
    \/ DoRenderBatch

(* The caller goes on calling until done is reported. *)
SpecDrain == InitFake /\ [][NextDrain]_vars /\ WF_vars(NextDrain)

(* The queried events of channel k the cursor has not passed. *)
UnreadOf(w, k) ==
    IF k \in DOMAIN w.Events /\ k \in w.query[1]
    THEN Len(w.Events[k]) - Get(w.cursors[1], k, 0)
    ELSE 0

Unread(w) ==
    IF w.query = <<>> \/ w.cursors = <<>> THEN 0
    ELSE UnreadOf(w, "foo") + UnreadOf(w, "bar") + UnreadOf(w, "baz")

NotDone == ret.op = "RenderedEvents" /\ ~ret.done

(* C39: with no Append, calling RenderedEvents(max), max >= 1, on a        *)
(* subscribed fake again and again eventually returns done = true; every   *)
(* call that returns done = false returns exactly max events, and the      *)
(* number of unread queried events is then smaller than before the call.   *)
C39_DrainTerminates ==
    /\ [][NotDone' => /\ Len(ret'.events) = ret'.max
                      /\ Unread(api') + ret'.max = Unread(api)]_vars
    /\ <>(ret.op = "RenderedEvents" /\ ret.done)

(* A call took the last unread events and still returned done = false. *)
C39_LastBatchNotDone ==
    /\ NotDone
    /\ ret.max >= 1
    /\ Len(ret.events) = ret.max
    /\ Unread(api) = 0

----------------------------------------------------------------------------
(* powershell: Command and supplementalErr. A string is the sequence of    *)
(* its characters; "(" stands for a supplemental string that is not a      *)
(* regular expression.                                                     *)

ErrPowerShell == "ErrPowerShell"
ErrSupplemental == "ErrSupplemental"
errCompile == "errCompile"

MaxOut == 3
Chars == {"e", "E", "x"}
Outputs == UNION {[1..n -> Chars] : n \in 0..MaxOut}
Supplements == {<< "e" >>, << "E", "x" >>, << "(" >>}
Supplementals == UNION {[1..n -> Supplements] : n \in 0..2}

(* The flag i of the regular expression: letters match in either case. *)
Fold(s) == [i \in 1..Len(s) |-> IF s[i] = "E" THEN "e" ELSE s[i]]

(* regexp.Compile of (?i)<supplement>[\s\S]+ *)
Compiles(supplement) == \A i \in 1..Len(supplement) : supplement[i] # "("

(* regex.Match(output): the supplement, in either case, followed by at     *)
(* least one more character.                                               *)
Match(supplement, output) ==
    \E i \in 1..Len(output) :
        /\ i + Len(supplement) - 1 < Len(output)
        /\ Fold(SubSeq(output, i, i + Len(supplement) - 1)) = Fold(supplement)

(* supplementalErr: the sentinel of its error, "" when it returns nil. *)
RECURSIVE supplementalErr(_, _, _)
supplementalErr(output, supplemental, i) ==
    IF i > Len(supplemental) THEN ""
    ELSE IF ~Compiles(supplemental[i]) THEN errCompile
    ELSE IF Match(supplemental[i], output) THEN ErrPowerShell
    ELSE supplementalErr(output, supplemental, i + 1)

(* Command(psCmd, supplemental, config), when powerShellCmd fails (with no *)
(* output) or returns output.                                              *)
Command(failed, output, supplemental) ==
    IF failed THEN [out |-> <<>>, err |-> {ErrPowerShell}]
    \* the error of supplementalErr is formatted with %v
    ELSE IF supplementalErr(output, supplemental, 1) # ""
    THEN [out |-> output, err |-> {ErrSupplemental}]
    ELSE [out |-> output, err |-> {}]

InitCommand ==
    /\ backend = "windows"
    /\ dev = ZeroDevice
    /\ disk = [name |-> ID, size |-> 0, busy |-> {}, parts |-> <<>>]
    /\ pre = dev
    /\ found = <<>>
    /\ api = NoAPI
    /\ seen = NoneSeen
    /\ ret = [op |-> "none", out |-> <<>>, err |-> {}, args |-> <<>>]

DoCommand ==
    /\ ret.op = "none"
    /\ \E failed \in BOOLEAN, output \in Outputs, supplemental \in Supplementals :
          ret' = [op |-> "Command", out |-> Command(failed, output, supplemental).out,
                  err |-> Command(failed, output, supplemental).err,
                  args |-> [failed |-> failed, output |-> output,
                            supplemental |-> supplemental]]
    /\ UNCHANGED <<backend, dev, disk, pre, found, api, seen>>

NextCommand == DoCommand

SpecCommand == InitCommand /\ [][NextCommand]_vars

----------------------------------------------------------------------------
(* Two goroutines, each calling Mount (windows) on its own Partition of    *)
(* one disk. ret holds the two calls: where each is (pc: "start", after    *)
(* freeDrive "picked", after Set-Partition "assigned", and "done"), its    *)
(* *Partition (part), the letter asked for, the letter freeDrive returned  *)
(* (available), and what the call returned (out, chain).                   *)
Goroutines == {1, 2}

MountCall(part, letter) ==
    [pc |-> "start", part |-> part, letter |-> letter, available |-> "",
     out |-> "nil", chain |-> {}]

InitRace ==
    /\ backend = "windows"
    /\ \E busy \in SUBSET {"F", "G"}, fs \in [Goroutines -> {"FAT32", "IFS", ""}],
          held \in {"", "G"} :
          /\ held # "" => held \notin busy
          /\ disk = [name |-> ID, size |-> bigDisk, busy |-> busy,
                     parts |-> << DiskPart(PartId("windows", 1), fs[1], "", "", fourGB),
                                  DiskPart(PartId("windows", 2), fs[2], held, "", fourGB) >>]
    /\ dev = ZeroDevice
    /\ pre = dev
    /\ ret \in {[op |-> "Mount",
                 calls |-> [g \in Goroutines |-> MountCall(Detected("windows", disk.parts)[g], l[g])]] :
                    l \in [Goroutines -> {"", "G"}]}
    /\ found = <<>>
    /\ api = NoAPI
    /\ seen = NoneSeen

(* A pool that leaves out the letters the calls in flight have selected. *)
Pool_Reserved(k, calls) ==
    SelectSeq(freeDrives(k),
              LAMBDA l : \A g \in Goroutines :
                            ~(calls[g].pc \in {"picked", "assigned"} /\ calls[g].available = l))

(* The pool freeDrive reads for a call while calls are in flight:          *)
(* availableDrives probes the system, and nothing else.                    *)
Pool(k, calls) == freeDrives(k)

(* The call c returns out with the sentinels of chain. *)
Finish(c, out, chain) == [c EXCEPT !.pc = "done", !.out = out, !.chain = chain]

(* Mount up to the return of freeDrive. *)
MountPick(c, k, calls) ==
    IF c.part.mount # "" THEN Finish(c, "nil", {})
    ELSE IF c.part.fileSystem = UnknownFS THEN Finish(c, "nil", {})
    ELSE LET free == freeDrive(c.letter, Pool(k, calls))
         IN  IF free[2] # "" THEN Finish(c, "err", {errInput})
             ELSE [c EXCEPT !.pc = "picked", !.available = free[1]]

(* setPartitionCmd and the check of its output; o is what the cmdlet did. *)
MountAssign(c, o) ==
    CASE o = "err" -> Finish(c, "err", {errPowershell})
      [] o = "sig" -> Finish(c, "err", {errDriveLetter})
      [] OTHER -> [c EXCEPT !.pc = "assigned"]

(* part.mount = available; return nil *)
MountRecord(c) ==
    Finish([c EXCEPT !.part.mount = c.available], "nil", {})

Step(g, c, k) ==
    /\ ret' = [ret EXCEPT !.calls[g] = c]
    /\ disk' = k
    /\ UNCHANGED <<backend, dev, pre, found, api, seen>>

DoPick(g) ==
    /\ ret.calls[g].pc = "start"
    /\ Step(g, MountPick(ret.calls[g], disk, ret.calls), disk)

DoAssign(g) ==
    /\ ret.calls[g].pc = "picked"
    /\ \E o \in {"ok", "err", "sig"} :
          Step(g, MountAssign(ret.calls[g], o),
               IF o = "ok"
               THEN SetPartition(disk, ret.calls[g].part.id, ret.calls[g].available)
               ELSE disk)

DoRecord(g) ==
    /\ ret.calls[g].pc = "assigned"
    /\ Step(g, MountRecord(ret.calls[g]), disk)

NextRace == \E g \in Goroutines : DoPick(g) \/ DoAssign(g) \/ DoRecord(g)

SpecRace == InitRace /\ [][NextRace]_vars

----------------------------------------------------------------------------

(* Partition and PartitionWithOptions (windows) on an unpartitioned Device *)
(* of each size around maxPartSize, with each size a caller may ask for.   *)
PartSizes ==
    {eightGB, maxPartSize - 1, maxPartSize, maxPartSize + 1, bigDisk}
AskedSizes == {0, 1} \cup PartSizes

InitSizes ==
    /\ backend = "windows"
    /\ \E size \in PartSizes, id \in {"", ID}, removable \in BOOLEAN :
          /\ disk = [name |-> ID, size |-> size, busy |-> {}, parts |-> <<>>]
          /\ dev = [ZeroDevice EXCEPT !.id = id, !.size = size, !.removable = removable,
                                      !.partStyle = GptStyle]
    /\ pre = dev
    /\ ret = NoCall
    /\ found = <<>>
    /\ api = NoAPI
    /\ seen = NoneSeen

DoPartitionWithOptions ==
    /\ Alive
    /\ \E label \in Labels, size \in AskedSizes :
       \E flt \in FaultsOf(WindowsPartitionWithOptions(dev, disk, <<>>, NoFault,
                                                       label, size).cmds) :
          Return("PartitionWithOptions",
                 WindowsPartitionWithOptions(dev, disk, <<>>, flt, label, size),
                 ZeroPartition, <<size>>, flt)

NextSizes == DoPartition \/ DoPartitionWithOptions \/ DoWipe

SpecSizes == InitSizes /\ [][NextSizes]_vars

----------------------------------------------------------------------------

(* freeDrive on the pools availableDrives may return: the letters of       *)
(* TestFreeDrive, up to MaxPool of them in any order.                      *)
MaxPool == 3
PoolLetters == {"F", "X", "Y", "Z"}
Pools == UNION {[1..n -> PoolLetters] : n \in 0..MaxPool}

InitFreeDrive ==
    /\ backend = "windows"
    /\ disk = [name |-> ID, size |-> bigDisk, busy |-> {}, parts |-> <<>>]
    /\ dev = ZeroDevice
    /\ pre = dev
    /\ ret = [op |-> "none", letter |-> "", err |-> "", args |-> <<>>]
    /\ found = <<>>
    /\ api = NoAPI
    /\ seen = NoneSeen

DoFreeDrive ==
    /\ ret.op = "none"
    /\ \E requested \in {""} \cup PoolLetters, available \in Pools :
          ret' = [op |-> "freeDrive",
                  letter |-> freeDrive(requested, available)[1],
                  err |-> freeDrive(requested, available)[2],
                  args |-> [requested |-> requested, available |-> available]]
    /\ UNCHANGED <<backend, dev, disk, pre, found, api, seen>>

NextFreeDrive == DoFreeDrive

SpecFreeDrive == InitFreeDrive /\ [][NextFreeDrive]_vars

----------------------------------------------------------------------------

(* The caller selects a partition, mounts the *Partition it was handed and *)
(* then dismounts the Device, without detecting in between. After the      *)
(* Dismount ret.part is still the *Partition the caller holds, and         *)
(* ret.args is what Mount returned and the Partition before Mount.         *)
DoDismountHolding ==
    /\ Alive
    /\ ret.op = "Mount"
    /\ \E flt \in FaultsOf(Dismount(backend, dev, disk, <<>>, NoFault).cmds) :
          Return("Dismount", Dismount(backend, dev, disk, <<>>, flt), ret.part,
                 <<ret.out, ret.args[2], ret.cmds>>, flt)

NextDetached ==
    \/ ret.op = "none" /\ DoSelectPartition
    \/ ret.op = "SelectPartition" /\ DoMount
    \/ DoDismountHolding

SpecDetached == Init /\ [][NextDetached]_vars

----------------------------------------------------------------------------

(* simple.WindowsEvent (package simple). api is the WindowsEvent value     *)
(* (config and subscription are 0 for nil, otherwise the number of the     *)
(* config made for them; publisherCache is the set of publishers with an   *)
(* open handle) together with what the system knows of its handles: how    *)
(* many configs were made, and how often the handles of each config and    *)
(* each subscription were closed with success. Every call into winlog or   *)
(* wevtapi may fail.                                                       *)
MaxConfigs == 2
Publishers == {"Security"}
CallOutcomes == {"ok", "err"}

NewWindowsEvent ==
    [config |-> 0, subscription |-> 0, publisherCache |-> {}, made |-> 0,
     cfgClosed |-> <<>>, subClosed |-> <<>>]

(* The steps of Subscribe that can return an error, for a query. *)
SubscribeSteps(query) ==
    {"DefaultSubscribeConfig", "EvtCreateBookmark", "Subscribe"}
        \cup (IF query # {} THEN {"AvailableChannels", "BuildStructuredXMLQuery"} ELSE {})

(* cfg.Close() on the config n, returning o. *)
CloseConfig(e, n, o) ==
    IF o = "ok" THEN [e EXCEPT !.cfgClosed[n] = @ + 1] ELSE e

(* Subscribe with the failed step fail ("" when every step succeeds) and   *)
(* the outcome o of the deferred cfg.Close(): <<e, error>>.                *)
EventSubscribe(e, query, fail, o) ==
    IF e.config # 0 \/ e.subscription # 0 THEN <<e, TRUE>>
    ELSE IF fail = "DefaultSubscribeConfig" THEN <<e, TRUE>>
    ELSE LET n  == e.made + 1
             e1 == [e EXCEPT !.made = n, !.cfgClosed = Append(@, 0),
                             !.subClosed = Append(@, 0)]
         IN  IF fail \in {"EvtCreateBookmark", "AvailableChannels",
                          "BuildStructuredXMLQuery"}
             THEN <<CloseConfig(e1, n, o), TRUE>>
             ELSE IF fail = "Subscribe"
             \* e.config = cfg precedes winlog.Subscribe; the deferred
             \* cleanup closes cfg and e.config keeps pointing at it
             THEN <<CloseConfig([e1 EXCEPT !.config = n, !.subscription = 0,
                                           !.publisherCache = {}], n, o), TRUE>>
             ELSE <<[e1 EXCEPT !.config = n, !.subscription = n,
                               !.publisherCache = {}], FALSE>>

(* Close with the outcomes of winlog.Close(e.subscription), of             *)
(* winlog.Close on the publisher handles and of e.config.Close():          *)
(* <<e, error>>.                                                           *)
EventClose(e, oSub, oPub, oCfg) ==
    LET e1 == IF e.subscription # 0 /\ oSub = "ok"
              THEN [e EXCEPT !.subClosed[e.subscription] = @ + 1, !.subscription = 0]
              ELSE e
        e2 == IF oPub = "ok" THEN [e1 EXCEPT !.publisherCache = {}] ELSE e1
        e3 == IF e2.config # 0 /\ oCfg = "ok"
              THEN [CloseConfig(e2, e2.config, "ok") EXCEPT !.config = 0]
              ELSE e2
    IN  <<e3, \/ e.subscription # 0 /\ oSub = "err"
              \/ e.publisherCache # {} /\ oPub = "err"
              \/ e.config # 0 /\ oCfg = "err">>

InitEvent ==
    /\ backend = "windows"
    /\ disk = [name |-> ID, size |-> bigDisk, busy |-> {}, parts |-> <<>>]
    /\ dev = ZeroDevice
    /\ pre = dev
    /\ found = <<>>
    /\ seen = NoneSeen
    /\ api = NewWindowsEvent
    /\ ret = [op |-> "none", err |-> FALSE, done |-> FALSE, before |-> NewWindowsEvent]

(* A method of the WindowsEvent returns r = <<e, error>>. *)
EventReturn(op, r) ==
    /\ api' = r[1]
    /\ ret' = [op |-> op, err |-> r[2], done |-> FALSE, before |-> api]
    /\ UNCHANGED <<backend, dev, disk, pre, found, seen>>

DoEventSubscribe ==
    /\ api.made < MaxConfigs
    /\ \E query \in {{}, {"Security"}} :
       \E fail \in {""} \cup SubscribeSteps(query), o \in CallOutcomes :
          EventReturn("Subscribe", EventSubscribe(api, query, fail, o))

(* What winlog.GetRenderedEvents can come back with: events, one of the    *)
(* two codes that stand for nothing to read, or another error. It renders  *)
(* events only from a subscription handle.                                 *)
RenderOutcomes(e) ==
    IF e.subscription # 0 THEN {"events", "none", "err"} ELSE {"none", "err"}

(* RenderedEvents(max): e.config, e.publisherCache and e.subscription are  *)
(* handed to winlog.GetRenderedEvents as they are. With events it opens    *)
(* the metadata of their publisher p and keeps the handle in the cache;    *)
(* nothing to read is returned as done, any other error as the error.      *)
EventRenderedEvents(e, o, p) ==
    CASE o = "events" ->
             [e |-> [e EXCEPT !.publisherCache = @ \cup {p}], done |-> FALSE, err |-> FALSE]
      [] o = "none" -> [e |-> e, done |-> TRUE, err |-> FALSE]
      [] OTHER -> [e |-> e, done |-> FALSE, err |-> TRUE]

DoEventRendered ==
    /\ backend = "windows"
    /\ \E o \in RenderOutcomes(api), p \in Publishers :
          LET r == EventRenderedEvents(api, o, p)
          IN  /\ api' = r.e
              /\ ret' = [op |-> "RenderedEvents", err |-> r.err, done |-> r.done,
                         before |-> api]
    /\ UNCHANGED <<backend, dev, disk, pre, found, seen>>

DoEventClose ==
    /\ backend = "windows"
    /\ \E oSub \in CallOutcomes, oPub \in CallOutcomes, oCfg \in CallOutcomes :
          EventReturn("Close", EventClose(api, oSub, oPub, oCfg))

NextEvent == DoEventSubscribe \/ DoEventRendered \/ DoEventClose

SpecEvent == InitEvent /\ [][NextEvent]_vars

----------------------------------------------------------------------------

----------------------------------------------------------------------------
(* powershell: Session. One PowerShell process reads commands from its     *)
(* standard input and writes their output, line by line, to its standard   *)
(* output; Execute writes a command followed by Write-Host of the end      *)
(* marker and reads lines until one is the end marker. api is the Session  *)
(* with its process and pipes, ret the calls of Execute under way.         *)
(*                                                                         *)
(* A line carries the number of the write whose command printed it (w);    *)
(* the reader does not see that number: every line of kind "end" is the    *)
(* end marker to it. The commands are ones whose output has no line equal  *)
(* to the end marker.                                                      *)
MaxCalls == 2
Commands == {"hostname", "Get-Date", "Get-Volume"}

LinesOf(command) ==
    CASE command = "hostname" -> 1
      [] command = "Get-Date" -> 0
      [] OTHER -> 2

OutLine(w, j) == [kind |-> "out", w |-> w, j |-> j]
endMarker(w) == [kind |-> "end", w |-> w, j |-> 0]

NoExecute == [pc |-> "idle", command |-> "", w |-> 0, output |-> <<>>,
              result |-> <<>>, end |-> 0, err |-> FALSE, n |-> 0]

NewSession ==
    [mu |-> 0, stdin |-> <<>>, stdout |-> <<>>, running |-> <<>>,
     closed |-> FALSE, writes |-> 0]

InitSession ==
    /\ backend = "windows"
    /\ dev = ZeroDevice
    /\ disk = [name |-> ID, size |-> 0, busy |-> {}, parts |-> <<>>]
    /\ pre = dev
    /\ found = <<>>
    /\ seen = Fresh(<<>>)
    /\ api = NewSession
    /\ ret = [op |-> "Execute", calls |-> [g \in Goroutines |-> NoExecute]]

(* ps.mu.Lock() goes through when no call holds the mutex. *)
CanLock_Always(s, g) == TRUE

CanLock(s, g) == s.mu = 0

(* The deferred ps.mu.Unlock() of a return. *)
Unlock(s) == [s EXCEPT !.mu = 0]

SessionStep(s, g, c) ==
    /\ api' = s
    /\ ret' = [ret EXCEPT !.calls[g] = c]
    /\ UNCHANGED <<backend, dev, disk, pre, found, seen>>

(* Execute(command) is called and takes the mutex. *)
DoLock(g) ==
    /\ ret.calls[g].pc \in {"idle", "done"}
    /\ ret.calls[g].n < MaxCalls
    /\ CanLock(api, g)
    /\ \E command \in Commands :
          SessionStep([api EXCEPT !.mu = g], g,
                      [NoExecute EXCEPT !.pc = "write", !.command = command,
                                        !.n = ret.calls[g].n + 1])

(* ps.stdin.Write(fullCommand): an error once the pipe is closed. *)
DoWrite(g) ==
    /\ ret.calls[g].pc = "write"
    /\ IF api.closed
       THEN SessionStep(Unlock(api), g,
                        [ret.calls[g] EXCEPT !.pc = "done", !.err = TRUE])
       ELSE SessionStep([api EXCEPT !.writes = @ + 1,
                                    !.stdin = Append(@, [w |-> api.writes + 1,
                                                         c |-> ret.calls[g].command])],
                        g, [ret.calls[g] EXCEPT !.pc = "read", !.w = api.writes + 1])

(* One turn of the loop: ps.stdout.ReadString('\n') and the comparison     *)
(* with the end marker. The read waits while the pipe is empty and open.   *)
DoRead(g) ==
    /\ ret.calls[g].pc = "read"
    /\ IF api.stdout # <<>>
       THEN LET line == Head(api.stdout)
                s == [api EXCEPT !.stdout = Tail(@)]
            IN  IF line.kind = "end"
                THEN SessionStep(Unlock(s), g,
                                 [ret.calls[g] EXCEPT !.pc = "done", !.end = line.w,
                                                      !.result = ret.calls[g].output])
                ELSE SessionStep(s, g,
                                 [ret.calls[g] EXCEPT !.output = Append(@, line)])
       ELSE /\ api.closed
            /\ SessionStep(Unlock(api), g,
                           [ret.calls[g] EXCEPT !.pc = "done", !.err = TRUE])

(* The process takes the next command from its input, or prints the next   *)
(* line of the command it runs, the end marker after the last.             *)
DoProcess ==
    /\ ~api.closed
    /\ IF api.running = <<>>
       THEN /\ api.stdin # <<>>
            /\ api' = [api EXCEPT !.stdin = Tail(@),
                                  !.running = << [w |-> Head(api.stdin).w,
                                                  c |-> Head(api.stdin).c, j |-> 0] >>]
       ELSE LET r == api.running[1]
            IN  IF r.j < LinesOf(r.c)
                THEN api' = [api EXCEPT !.running = << [r EXCEPT !.j = r.j + 1] >>,
                                        !.stdout = Append(@, OutLine(r.w, r.j + 1))]
                ELSE api' = [api EXCEPT !.running = <<>>,
                                        !.stdout = Append(@, endMarker(r.w))]
    /\ UNCHANGED <<backend, dev, disk, pre, found, seen, ret>>

(* Close(): the input pipe is closed and the process killed; what it had   *)
(* printed can still be read. Close takes no mutex.                        *)
DoSessionClose ==
    /\ ~api.closed
    /\ api' = [api EXCEPT !.closed = TRUE, !.stdin = <<>>, !.running = <<>>]
    /\ UNCHANGED <<backend, dev, disk, pre, found, seen, ret>>

NextSession ==
    \/ \E g \in Goroutines : DoLock(g)
    \/ \E g \in Goroutines : DoWrite(g)
    \/ \E g \in Goroutines : DoRead(g)
    \/ DoProcess
    \/ DoSessionClose

SpecSession == InitSession /\ [][NextSession]_vars

(* The calls between taking the mutex and returning. *)
InExchange == {g \in Goroutines : ret.calls[g].pc \in {"write", "read"}}

(* What the command of call c printed. *)
OwnOutput(c) == [j \in 1..LinesOf(c.command) |-> OutLine(c.w, j)]

(* C40: Execute holds the session mutex from before its write to its       *)
(* return, so the exchanges of concurrent calls never overlap, and a call  *)
(* that returns output returns the lines its own command printed, up to    *)
(* its own end marker.                                                     *)
C40_ExchangesDoNotOverlap ==
    /\ \A g \in InExchange : api.mu = g
    /\ Cardinality(InExchange) <= 1
    /\ \A g \in Goroutines :
          LET c == ret.calls[g]
          IN  c.pc = "done" /\ ~c.err => c.result = OwnOutput(c) /\ c.end = c.w

(* Both goroutines have returned output, the second one's exchange first. *)
C40_BothReturned ==
    /\ \A g \in Goroutines :
          /\ ret.calls[g].pc = "done"
          /\ ~ret.calls[g].err
          /\ ret.calls[g].result # <<>>
    /\ ret.calls[2].w < ret.calls[1].w
    /\ ret.calls[1].command # ret.calls[2].command

(* Properties of the device methods, stated over the Device before the     *)
(* last call (pre), the Device after it (dev) and what the call returned   *)
(* (ret).                                                                  *)

Methods == {"DetectPartitions", "Wipe", "Partition", "Dismount", "Eject"}

(* The last call returned errInput and made no backend call. *)
InputErrorNoCall ==
    ret.out = "err" /\ errInput \in ret.chain /\ ret.cmds = <<>>

(* The Device passes the input guard of the methods of its backend. *)
Usable(d) == d.id # "" /\ (backend = "linux" => d.path # "")

(* The mount paths the last call asked the backend to release, in order. *)
ReleaseCmds == {"umount", "Remove-PartitionAccessPath"}
Releases ==
    LET rel == SelectSeq(ret.cmds, LAMBDA x : x.cmd \in ReleaseCmds)
    IN  [i \in 1..Len(rel) |-> rel[i].arg]

(* The mount paths of the mounted partitions among the first n of pre. *)
MountedUpTo(n) ==
    LET m == SelectSeq(SubSeq(pre.partitions, 1, n), LAMBDA p : p.mount # "")
    IN  [i \in 1..Len(m) |-> m[i].mount]

(* C1: Partition on a Device (one that passes the input guard) whose       *)
(* partitions list is not empty returns a device or partition error,       *)
(* issues no backend command and leaves the partitions list as it was, on  *)
(* every backend.                                                          *)
C1_PartitionRejectsPartitioned ==
    (ret.op = "Partition" /\ Usable(pre) /\ Len(pre.partitions) > 0)
        => /\ ret.out = "err"
           /\ ret.chain \cap {errDisk, errPartition} # {}
           /\ ret.cmds = <<>>
           /\ dev.partitions = pre.partitions

(* C2: after Eject returns nil on a Device with an id, every               *)
(* field of the Device is zero, and every later method call on the value   *)
(* returns errInput, on every backend.                                     *)
C2_EjectZeroes ==
    /\ (ret.op = "Eject" /\ ret.out = "nil" /\ pre.id # "") => dev = ZeroDevice
    /\ (pre = ZeroDevice /\ ret.op \in Methods)
          => (ret.out = "err" /\ errInput \in ret.chain)

(* C3: on a Device with an empty id, DetectPartitions, Wipe,               *)
(* Partition, Dismount and Eject each return errInput and issue no backend *)
(* command, whatever the path and the partitions of the Device.            *)
C3_EmptyIdRejected ==
    (pre.id = "" /\ ret.op \in Methods) => InputErrorNoCall

(* C4: when Dismount returns nil, every partition of the Device has an     *)
(* empty mount path, and no release was asked for a partition that had no  *)
(* mount path, on every backend.                                           *)
C4_DismountClearsMounts ==
    (ret.op = "Dismount" /\ ret.out = "nil")
        => /\ \A i \in 1..Len(dev.partitions) : dev.partitions[i].mount = ""
           /\ \A j \in 1..Len(Releases) :
                 \E i \in 1..Len(pre.partitions) :
                    pre.partitions[i].mount # "" /\ pre.partitions[i].mount = Releases[j]

(* C5: when Dismount walks the partitions in order and the release of      *)
(* partition k is the first to fail, Dismount returns the failure, every   *)
(* earlier partition has its mount path cleared, partition k and the later *)
(* ones keep theirs, and no release is attempted after partition k.        *)
C5_DismountStopsAtFirstFailure ==
    (ret.op = "Dismount" /\ ret.out = "err" /\ backend \in {"linux", "windows"})
        => /\ Len(dev.partitions) = Len(pre.partitions)
           /\ \E k \in 1..Len(pre.partitions) :
                 /\ pre.partitions[k].mount # ""
                 /\ \A i \in 1..(k - 1) : dev.partitions[i].mount = ""
                 /\ \A i \in k..Len(pre.partitions) :
                       dev.partitions[i].mount = pre.partitions[i].mount
                 /\ Releases = MountedUpTo(k)

(* C6, as claimed: when Wipe returns nil the partition style of the Device *)
(* is GPT and its partitions list is empty, on every backend.              *)
C6_WipeSetsGpt ==
    (ret.op = "Wipe" /\ ret.out = "nil")
        => (dev.partStyle = GptStyle /\ dev.partitions = <<>>)

(* C6, amended: when Wipe returns nil the partitions list of the Device is *)
(* empty on every backend, and its partition style is GPT on darwin and    *)
(* windows and unknown on linux.                                           *)
C6_WipeStyleByBackend ==
    (ret.op = "Wipe" /\ ret.out = "nil")
        => /\ dev.partitions = <<>>
           /\ dev.partStyle = (IF backend = "linux" THEN UnknownStyle ELSE GptStyle)

(* Wipe returned nil on a Device that held partitions and was not GPT. *)
C6_Wiped ==
    /\ ret.op = "Wipe" /\ ret.out = "nil"
    /\ Len(pre.partitions) > 0 /\ pre.partStyle = MbrStyle
    /\ dev.partitions = <<>>

(* Wipe, Partition and DetectPartitions(false) returned nil in a row, and  *)
(* the last listing held what is on the disk.                              *)
RoundTrip == ret.trip = 3 /\ ret.flt = NoFault

(* C7: after Wipe, Partition and DetectPartitions(false) each              *)
(* returned nil, the Device has exactly one partition and its size is at   *)
(* most the FAT32 cap, also on a device larger than the cap, on every      *)
(* backend.                                                                *)
C7_RoundTripCapped ==
    RoundTrip => /\ Len(dev.partitions) = 1
                 /\ dev.partitions[1].size <= maxWinFAT32Size

(* A listing of the partitions follows the partitioning command in the     *)
(* calls of the last operation.                                            *)
ListedAfterPartitioning ==
    \E i, j \in 1..Len(ret.cmds) :
        /\ i < j
        /\ ret.cmds[i].cmd \in {"diskutil partitionDisk", "parted", "CreatePartition"}
        /\ ret.cmds[j].cmd \in {"diskutil list", "lsblk", "GetPartitions"}

(* C8: when Partition returns nil the partition style of the               *)
(* Device is GPT and its partitions list is the result of a detection made *)
(* after the partitioning command, on every backend.                       *)
C8_PartitionRedetects ==
    (ret.op = "Partition" /\ ret.out = "nil")
        => /\ dev.partStyle = GptStyle
           /\ ListedAfterPartitioning
           /\ ret.flt = NoFault =>
                 dev.partitions =
                    DetectPartitions(backend, dev, disk, <<>>, NoFault, FALSE).dev.partitions

----------------------------------------------------------------------------
(* Properties of Search and New, under SpecSearch. *)

(* C9: New with an id returns a Device only when the search without bounds *)
(* yields exactly one device; when it yields none New returns              *)
(* errDetectDisk, and when it yields more than one New returns errNoMatch  *)
(* (on linux and windows, where New calls Search; the search yields the    *)
(* devices the backend lists).                                             *)
C9_NewExactlyOne ==
    (ret.op = "New" /\ ret.args.deviceID # "" /\ ret.flt = NoFault
        /\ backend \in {"linux", "windows"})
        => /\ ret.out = "nil" => (Len(ret.args.listing) = 1 /\ Len(found) = 1)
           /\ Len(ret.args.listing) = 0
                 => (ret.out = "err" /\ errDetectDisk \in ret.chain)
           /\ Len(ret.args.listing) > 1
                 => (ret.out = "err" /\ errNoMatch \in ret.chain)

(* C10: Search, New, DetectPartitions and SelectPartition never panic,     *)
(* whatever the backend returns, a listing without devices included.       *)
C10_NoPanic ==
    ret.op \in {"Search", "New", "DetectPartitions", "SelectPartition"}
        => ret.out # "panic"

(* The devices of a listing that pass the bounds, by position. *)
Qualifies(d, minSize, maxSize, removableOnly) ==
    /\ ~removableOnly \/ d.removable
    /\ d.size >= minSize
    /\ maxSize = 0 \/ d.size <= maxSize

RECURSIVE Qualifying(_, _, _, _, _)
Qualifying(listing, i, minSize, maxSize, removableOnly) ==
    IF i > Len(listing) THEN <<>>
    ELSE (IF Qualifies(listing[i], minSize, maxSize, removableOnly)
          THEN << [id |-> DevName(i), size |-> listing[i].size,
                   removable |-> listing[i].removable] >>
          ELSE <<>>)
         \o Qualifying(listing, i + 1, minSize, maxSize, removableOnly)

Summary(devs) ==
    [i \in 1..Len(devs) |-> [id |-> devs[i].id, size |-> devs[i].size,
                             removable |-> devs[i].removable]]

(* The enumeration step of Search found devices to work on: the backend    *)
(* answered every call, and the listing is one Search does not turn into   *)
(* an error (darwin and windows refuse a listing without devices).         *)
Enumerated ==
    /\ ret.op = "Search"
    /\ ret.flt = NoFault
    /\ backend # "linux" => ret.args.listing # <<>>

(* C11: when enumeration and detection succeed, Search returns exactly the *)
(* listed devices with (not removableOnly or removable), size >= minSize   *)
(* and (maxSize = 0 or size <= maxSize), in the order of the listing, and  *)
(* no error; so maxSize = 0 excludes nothing, a size equal to a bound is   *)
(* kept, and minSize > maxSize > 0 gives an empty result and a nil error.  *)
C11_SearchFilters ==
    Enumerated
        => /\ ret.out = "nil"
           /\ Summary(found) = Qualifying(ret.args.listing, 1, ret.args.minSize,
                                          ret.args.maxSize, ret.args.removableOnly)
           /\ (ret.args.minSize > ret.args.maxSize /\ ret.args.maxSize > 0)
                 => found = <<>>

(* A device whose size equals both bounds was returned. *)
C11_BoundaryKept ==
    /\ Enumerated
    /\ ret.args.minSize = eightGB /\ ret.args.maxSize = eightGB
    /\ Len(found) >= 1
    /\ \A i \in 1..Len(found) : found[i].size = eightGB
    /\ Len(found) < Len(ret.args.listing)

----------------------------------------------------------------------------
(* Undecodable bytes, under SpecSearch. *)

Decoders == {"Search", "New", "DetectPartitions"}

(* The call the fault of the last operation hit returned bytes that do not *)
(* decode.                                                                 *)
Undecodable == ret.op \in Decoders /\ ret.flt.mode = "bad"

(* C15: when the backend returns bytes that cannot be decoded,             *)
(* Search, New and DetectPartitions each return an error whose chain       *)
(* contains errUnmarshal; none panics or returns success.                  *)
C15_UndecodableIsUnmarshal ==
    Undecodable => (ret.out = "err" /\ errUnmarshal \in ret.chain)

(* What the operation owes when bytes do not decode: "" for success. The   *)
(* first call of Search, of the darwin New and of DetectPartitions is the  *)
(* one whose bytes the operation decodes itself.                           *)
UndecodableOwes ==
    CASE backend = "windows" ->
              IF ret.op = "New" /\ Len(ret.args.listing) > 1 THEN errNoMatch ELSE ""
      [] ret.op = "DetectPartitions" -> errUnmarshal
      [] ret.op = "Search" /\ ret.flt.at = 1 -> errUnmarshal
      [] ret.op = "Search" /\ backend = "linux" -> errPartRead
      [] ret.op = "Search" /\ backend = "darwin" -> errDetectDisk
      [] ret.op = "New" /\ backend = "linux" -> errDisk
      [] ret.op = "New" /\ backend = "darwin" /\ ret.flt.at = 1 -> errUnmarshal
      [] ret.op = "New" /\ backend = "darwin" -> errDetectDisk

(* C15, amended: on undecodable bytes none of Search, New, DetectPartitions *)
(* panics; the operation that decodes the bytes itself returns an error    *)
(* whose chain contains errUnmarshal; an operation that meets them in an   *)
(* operation it calls returns an error of its own kind alone (linux        *)
(* Search errPartRead, darwin Search and New errDetectDisk, linux New      *)
(* errDisk); on windows only the label of a volume is decoded, and the     *)
(* operation goes on without it: it returns success, or New its errNoMatch *)
(* for a listing of several devices.                                       *)
C15_UndecodableByOperation ==
    Undecodable
        => /\ ret.out # "panic"
           /\ ret.out = "nil" <=> UndecodableOwes = ""
           /\ ret.out = "err" => ret.chain = {UndecodableOwes}

(* Search met undecodable bytes in the detection of a listed device. *)
C15_SearchMetUndecodable ==
    /\ Undecodable
    /\ ret.op = "Search" /\ ret.flt.at > 1
    /\ ret.out = "err"

(* Properties of SelectPartition, under Spec. *)

(* The arguments of the last call of SelectPartition. *)
SelMinSize == ret.args[1]
SelFs == ret.args[2]

(* Partition p meets the criteria of the last call of SelectPartition. *)
Meets(p) == p.size >= SelMinSize /\ (SelFs = "" \/ p.fileSystem = SelFs)

(* C12: when detection succeeds, SelectPartition(minSize, fs) returns the  *)
(* first partition, in detection order, with size >= minSize and (fs empty *)
(* or fileSystem = fs): never one below minSize or of another filesystem,  *)
(* never a later one when an earlier one qualifies.                        *)
C12_SelectsFirstQualifying ==
    (ret.op = "SelectPartition" /\ ret.out = "nil")
        => \E i \in 1..Len(dev.partitions) :
              /\ ret.part = dev.partitions[i]
              /\ Meets(ret.part)
              /\ \A j \in 1..(i - 1) : ~Meets(dev.partitions[j])

(* SelectPartition passed over a first partition that does not qualify and *)
(* returned the second.                                                    *)
C12_SelectedSecond ==
    /\ ret.op = "SelectPartition" /\ ret.out = "nil"
    /\ Len(dev.partitions) = 2
    /\ ret.part = dev.partitions[2]
    /\ ~Meets(dev.partitions[1])

(* The error SelectPartition owes the last call, "" when it owes a         *)
(* partition: decided on the redetection and on the partitions it found.   *)
SelectError ==
    LET r == DetectPartitions(backend, pre, disk, <<>>, ret.flt, FALSE)
        big == {i \in 1..Len(r.dev.partitions) : r.dev.partitions[i].size >= SelMinSize}
    IN  CASE r.out = "err" -> errDisk
          [] r.dev.partitions = <<>> -> errEmpty
          [] big = {} -> errPartition
          [] SelFs # "" /\ \A i \in big : r.dev.partitions[i].fileSystem # SelFs -> errNoMatch
          [] OTHER -> ""

(* C13: SelectPartition fails with errDisk when the redetection returns an *)
(* error, with errEmpty when the device has no partitions, with            *)
(* errPartition when no partition has size >= minSize, with errNoMatch     *)
(* when partitions of that size exist but none has the filesystem asked    *)
(* for; the cases are decided in that order, a failing call carries        *)
(* exactly one of the four, and no other call fails.                       *)
C13_SelectErrors ==
    (ret.op = "SelectPartition" /\ ret.out # "panic")
        => /\ ret.out = "err" <=> SelectError # ""
           /\ ret.out = "err" => ret.chain = {SelectError}
           /\ ret.out = "err" => ret.part = ZeroPartition

(* A call failed with errNoMatch on a device whose partitions are large    *)
(* enough. *)
C13_NoMatchReturned ==
    /\ ret.op = "SelectPartition" /\ ret.out = "err"
    /\ ret.chain = {errNoMatch}
    /\ dev.partitions # <<>>
    /\ \E i \in 1..Len(dev.partitions) : dev.partitions[i].size >= SelMinSize

----------------------------------------------------------------------------
(* Properties of DetectPartitions, under Spec. *)

(* The listing the last DetectPartitions read decoded and held no          *)
(* partition: the disk has none, or the backend answered with a listing    *)
(* without entries.                                                        *)
ListedNoPartitions ==
    /\ ret.op = "DetectPartitions"
    /\ pre.id # ""
    /\ \/ ret.flt = NoFault /\ disk.parts = <<>>
       \/ backend = "linux" /\ ret.flt = [at |-> 1, mode |-> "empty"]
       \/ backend = "windows" /\ ret.flt = [at |-> 2, mode |-> "empty"]

(* C14: when the listing of the device decodes and reports no partitions,  *)
(* DetectPartitions returns no error and the partitions list of the Device *)
(* is empty afterwards, whatever it held before the call.                  *)
C14_NoPartitionsListed ==
    ListedNoPartitions => (ret.out = "nil" /\ dev.partitions = <<>>)

----------------------------------------------------------------------------
(* Properties of Partition.Mount and Partition.Format, under SpecMount. *)

(* The Partition value the last method of a Partition was called on. *)
Before == ret.args[2]

(* The partition of the disk that the Partition held describes. *)
Held == disk.parts[OnDisk(backend, ret.part, disk)]

(* C16: for a partition whose mount is not empty, Mount returns            *)
(* no error, issues no backend call and leaves mount unchanged, so the     *)
(* second of two Mount calls in succession returns no error and leaves     *)
(* mount as the first set it.                                              *)
C16_MountedIsLeftAlone ==
    (ret.op = "Mount" /\ Before.mount # "")
        => (ret.out = "nil" /\ ret.cmds = <<>> /\ ret.part.mount = Before.mount)

(* Mount was called on an unmounted partition of unknown filesystem. *)
UnknownFsMount ==
    ret.op = "Mount" /\ Before.fileSystem = UnknownFS /\ Before.mount = ""

(* C17: a partition whose fileSystem is UnknownFS is never                 *)
(* assigned an access path: Mount on it returns success, issues no backend *)
(* mount or drive-letter command and its mount stays empty, on every       *)
(* backend.                                                                *)
C17_UnknownFsNeverMounted ==
    UnknownFsMount
        => /\ ret.out = "nil" /\ ret.cmds = <<>>
           /\ ret.part.mount = "" /\ Held.mount = ""

(* The drive letters that were free when the last Mount was called: a      *)
(* Mount that succeeds takes the one it assigned.                          *)
FreeBefore ==
    {freeDrives(disk)[i] : i \in 1..Len(freeDrives(disk))}
        \cup (IF ret.out = "nil" /\ ret.part.mount # Before.mount
              THEN {ret.part.mount} ELSE {})

(* Mount was called for a drive letter on a partition that can take one. *)
LetterWanted ==
    /\ backend = "windows"
    /\ ret.op = "Mount"
    /\ Before.mount = "" /\ Before.fileSystem # UnknownFS

(* C18: Mount(requested) on an unmounted partition with a known filesystem *)
(* returns an error whose chain contains errDriveLetter when requested is  *)
(* not empty and not free, and errOSResource when no access path is free   *)
(* at all; in both cases no assignment is issued to the backend and mount  *)
(* stays empty.                                                            *)
C18_AccessPathErrors ==
    LET requested == ret.args[1]
        refused(e) == /\ ret.out = "err" /\ e \in ret.chain
                      /\ ret.cmds = <<>> /\ ret.part.mount = ""
    IN  LetterWanted
            => /\ FreeBefore = {} => refused(errOSResource)
               /\ (FreeBefore # {} /\ requested # "" /\ requested \notin FreeBefore)
                     => refused(errDriveLetter)

(* Mount was called on an unmounted partition with a known filesystem. *)
MountWanted ==
    ret.op = "Mount" /\ Before.mount = "" /\ Before.fileSystem # UnknownFS

(* C19: after Mount returns success on an unmounted partition              *)
(* with a known filesystem the mount of the partition is the access path   *)
(* acquired, not empty; after Mount returns an error mount is unchanged.   *)
C19_MountRecordsPath ==
    MountWanted
        => /\ ret.out = "nil" => (ret.part.mount # "" /\ ret.part.mount = Held.mount)
           /\ ret.out = "err" => ret.part.mount = Before.mount

(* C19, amended: on linux and windows a Mount that succeeds on an          *)
(* unmounted partition with a known filesystem leaves in mount the access  *)
(* path acquired (the letter asked for, when one was); on darwin it leaves *)
(* mount empty while the volume is mounted; on every backend a Mount that  *)
(* returns an error leaves the Partition as it was.                        *)
C19_MountResultByBackend ==
    MountWanted
        => /\ (ret.out = "nil" /\ backend # "darwin")
                 => /\ ret.part.mount # "" /\ ret.part.mount = Held.mount
                    /\ ret.part = [Before EXCEPT !.mount = ret.part.mount]
                    /\ (backend = "windows" /\ ret.args[1] # "")
                          => ret.part.mount = ret.args[1]
           /\ (ret.out = "nil" /\ backend = "darwin")
                 => (ret.part = Before /\ Held.mount # "")
           /\ ret.out = "err" => ret.part = Before

(* A linux Mount acquired a mount path. *)
C19_PathAcquired ==
    /\ MountWanted
    /\ backend = "linux"
    /\ ret.out = "nil"
    /\ ret.part.mount = MntPath("", Before.id)

(* The last call formatted a windows partition that was not mounted;       *)
(* mounting is opted out of with FormatWithOptions(.., mount = false).     *)
FormattedUnmounted ==
    /\ backend = "windows"
    /\ ret.op \in {"Format", "FormatWithOptions"}
    /\ ret.out = "nil"
    /\ Before.mount = ""

OptedOut == ret.op = "FormatWithOptions" /\ ~ret.args[4]

(* C20: after Format(label) returns success on windows for an unmounted    *)
(* partition, mount not opted out, the mount of the partition is not       *)
(* empty, whatever Partition value the library handed out, one detected    *)
(* before it was formatted included (Wipe, Partition, SelectPartition,     *)
(* Format); with mount opted out no access path is assigned.               *)
C20_FormatMounts ==
    FormattedUnmounted
        => /\ ~OptedOut => ret.part.mount # ""
           /\ OptedOut => /\ ret.part.mount = ""
                          /\ \A i \in 1..Len(ret.cmds) : ret.cmds[i].cmd # "Set-Partition"

(* The last call was FormatWithOptions on windows; its filesystem argument *)
(* is one windowsFormat has no case for.                                   *)
FormatOptions == backend = "windows" /\ ret.op = "FormatWithOptions"

Unsupported == ret.args[3] \notin {FAT32, NTFS}

NoFormatNoMount ==
    /\ \A i \in 1..Len(ret.cmds) : ret.cmds[i].cmd \notin {"Format", "Set-Partition"}
    /\ ret.part = Before

(* C21: FormatWithOptions with a filesystem other than FAT32 or NTFS       *)
(* returns UnsupportedFileSystemError without a backend format and without *)
(* mounting; with an empty partition path it returns InputError before any *)
(* backend connection is made.                                             *)
C21_UnsupportedRefused ==
    FormatOptions
        => /\ (Before.path # "" /\ Unsupported)
                 => /\ ret.out = "err"
                    /\ ret.chain = {errUnsupportedFileSystem}
                    /\ NoFormatNoMount
           /\ Before.path = ""
                 => /\ ret.out = "err"
                    /\ ret.chain = {errInput}
                    /\ ret.cmds = <<>>

(* The connection was made and the volume of the partition was found. *)
VolumeFound ==
    /\ ret.flt.at \notin {1, 2}
    /\ OnDisk("windows", Before, disk) # 0

(* C21, amended: FormatWithOptions with a filesystem other than FAT32 or   *)
(* NTFS returns an error without a backend format and without mounting:    *)
(* UnsupportedFileSystemError when the backend connection and the volume   *)
(* lookup succeed, their error otherwise; with an empty partition path it  *)
(* returns InputError before any backend connection is made.               *)
C21_UnsupportedAfterLookup ==
    FormatOptions
        => /\ (Before.path # "" /\ Unsupported)
                 => /\ ret.out = "err"
                    /\ NoFormatNoMount
                    /\ IF VolumeFound
                       THEN ret.chain = {errUnsupportedFileSystem}
                       ELSE ret.chain \in {{errBackend}, {errDetectVol}}
           /\ Before.path = ""
                 => /\ ret.out = "err"
                    /\ ret.chain = {errInput}
                    /\ ret.cmds = <<>>

(* An exFAT format was refused after the volume was found. *)
C21_ExFATRefused ==
    /\ FormatOptions
    /\ Before.path # ""
    /\ ret.args[3] = ExFAT
    /\ VolumeFound
    /\ ret.chain = {errUnsupportedFileSystem}

(* C22: if Eject returns an error (empty id or backend failure), every     *)
(* field of the Device, id and partitions included, is as it was before    *)
(* the call.                                                               *)
C22_FailedEjectKeepsDevice ==
    (ret.op = "Eject" /\ ret.out = "err")
        => /\ dev = pre
           /\ \/ ret.cmds = <<>> /\ (pre.id = "" \/ pre.path = "")
              \/ ret.flt.at = Len(ret.cmds)

(* An Eject of a Device with partitions failed in the backend. *)
C22_EjectFailed ==
    /\ ret.op = "Eject"
    /\ ret.out = "err"
    /\ ret.flt.at > 0
    /\ pre.id # ""
    /\ Len(pre.partitions) > 0

(* The last call was DetectPartitions; it issued a call that assigns an    *)
(* access path; the fault hit an assignment or the read of a label.        *)
Detecting == ret.op = "DetectPartitions"

Assigning ==
    \E i \in 1..Len(ret.cmds) :
        ret.cmds[i].cmd \in {"Set-Partition", "mount", "diskutil mount"}

AdvisoryFailed ==
    /\ ret.flt.at \in 1..Len(ret.cmds)
    /\ ret.cmds[ret.flt.at].cmd \in {"Set-Partition", "Get-Volume"}

(* The partitions of the disk that have an access path. *)
WithAccessPath == SelectSeq(disk.parts, LAMBDA gp : Len(AccessPaths(gp)) >= 1)

(* C23: DetectPartitions(assignAccessPath) attempts an access-path         *)
(* assignment only when assignAccessPath is true and the backend lists     *)
(* exactly one partition; a failed assignment or a failed label read never *)
(* makes DetectPartitions return an error, and the partition is still      *)
(* recorded in the partitions of the Device.                               *)
C23_AssignmentIsAdvisory ==
    Detecting
        => /\ Assigning => (ret.args[1] /\ Len(disk.parts) = 1)
           /\ AdvisoryFailed
                 => /\ ret.out = "nil"
                    /\ Len(dev.partitions) = Len(WithAccessPath)
                    /\ \A j \in 1..Len(WithAccessPath) :
                          /\ dev.partitions[j].id = WithAccessPath[j].id
                          /\ dev.partitions[j].path = VolumePath(WithAccessPath[j])

(* A detection recorded the one partition whose drive letter could not be  *)
(* assigned.                                                               *)
C23_AssignmentFailed ==
    /\ Detecting
    /\ ret.args[1]
    /\ ret.flt.at > 0
    /\ ret.cmds[ret.flt.at].cmd = "Set-Partition"
    /\ ret.out = "nil"
    /\ Len(dev.partitions) = 1
    /\ dev.partitions[1].mount = ""

(* The canonical values: the pairs of the two static tables. *)
StylePairs ==
    {<<"dos", MbrStyle>>, <<"gpt", GptStyle>>, <<"GPT", GptStyle>>, <<"MBR", MbrStyle>>,
     <<"GUID_partition_scheme", GptStyle>>, <<"FDisk_partition_scheme", MbrStyle>>}

FsPairs ==
    {<<"vfat", FAT32>>, <<"XINT13", FAT>>, <<"FAT32", FAT32>>, <<"FAT32 XINT13", FAT32>>,
     <<"System", FAT32>>, <<"Basic", FAT32>>, <<"IFS", NTFS>>, <<"Windows_NTFS", NTFS>>,
     <<"Windows_FAT_32", FAT32>>, <<"Microsoft Basic Data", FAT32>>, <<"EFI", FAT32>>,
     <<"Apple_APFS", APFS>>}

Canonical(pairs, s, unknown) ==
    IF \E p \in pairs : p[1] = s THEN (CHOOSE p \in pairs : p[1] = s)[2] ELSE unknown

(* The style the one listed device has to carry: windows reports the       *)
(* canonical number itself.                                                *)
StyleOwed ==
    LET s == ret.args.listing[1].style
    IN  IF backend = "windows" THEN << UnknownStyle, MbrStyle, GptStyle >>[s + 1]
        ELSE Canonical(StylePairs, s, UnknownStyle)

FsOwed(devparts) ==
    /\ Len(devparts) = Len(disk.parts)
    /\ \A j \in 1..Len(devparts) :
          devparts[j].fileSystem = Canonical(FsPairs, disk.parts[j].fs, UnknownFS)

(* Search or New met no failing backend call. *)
Discovered == ret.op \in {"Search", "New"} /\ ret.flt = NoFault

(* C24: for every partition-style string and every filesystem string a     *)
(* backend reports, detection yields the canonical value the static table  *)
(* maps it to, and every string absent from the table yields Unknown       *)
(* (Unknown style, Unknown filesystem) without an error, on every backend. *)
C24_TablesDecide ==
    /\ Discovered
          => /\ ret.out = "nil"
             /\ Len(found) = 1
             /\ found[1].partStyle = StyleOwed
             /\ FsOwed(found[1].partitions)
    /\ (ret.op = "DetectPartitions" /\ ret.flt = NoFault)
          => /\ ret.out = "nil"
             /\ dev.partStyle = StyleOwed
             /\ FsOwed(dev.partitions)

(* A device with a partition scheme and a filesystem that the tables do    *)
(* not list was discovered.                                                *)
C24_UnlistedDiscovered ==
    /\ Discovered
    /\ ret.out = "nil"
    /\ backend # "windows"
    /\ ret.args.listing[1].style = "Apple_partition_scheme"
    /\ disk.parts[1].fs = "ext4"
    /\ found[1].partStyle = UnknownStyle
    /\ found[1].partitions[1].fileSystem = UnknownFS

----------------------------------------------------------------------------
(* Properties of FakeWindowsAPI, stated over the value (api), the events   *)
(* its subscriber was handed (seen) and what the last call returned (ret). *)

Subscribed == api.query # <<>> /\ api.cursors # <<>>
QueriedBy(w) == IF w.query = <<>> THEN {} ELSE w.query[1]
Queried == QueriedBy(api)
Cursor(k) == Get(api.cursors[1], k, 0)
Kept(k) == Get(api.Events, k, <<>>)
Handed(k) == seen.before[k] \o seen.got[k]

(* The last call was a RenderedEvents(max) of an open subscription. *)
Read == ret.op = "RenderedEvents" /\ ret.err = ""

(* The queried channels hold no event that is still to be read. *)
Drained == \A k \in Queried : Cursor(k) = Len(Kept(k))

(* C25: for a subscribed FakeWindowsAPI, over any sequence of              *)
(* RenderedEvents(max) calls with max >= 1 interleaved with Append calls,  *)
(* each event of a queried channel is returned exactly once and in its     *)
(* channel order, no event of an unqueried channel is ever returned, and   *)
(* no single call returns more than max events.                            *)
C25_EachEventOnce ==
    /\ Subscribed
          => \A k \in Channels :
                Handed(k) = IF k \in Queried THEN SubSeq(Kept(k), 1, Cursor(k)) ELSE <<>>
    /\ (Read /\ ret.max >= 1) => Len(ret.events) <= ret.max
    /\ (Read /\ ret.done) => Drained

(* C25, amended: for a subscribed FakeWindowsAPI, over any sequence of     *)
(* RenderedEvents(max) calls with max >= 1 interleaved with Append calls,  *)
(* each event of a queried channel that lies after the cursor the bookmark *)
(* of the subscription gave the channel is returned exactly once and in    *)
(* its channel order, no event of an unqueried channel is ever returned,   *)
(* and no single call returns more than max events.                        *)
C25_EachEventPastBookmarkOnce ==
    /\ Subscribed
          => \A k \in Channels :
                Handed(k) = IF k \in Queried
                            THEN SubSeq(Kept(k), seen.start[k] + 1, Cursor(k))
                            ELSE <<>>
    /\ (Read /\ ret.max >= 1) => Len(ret.events) <= ret.max
    /\ (Read /\ ret.done) => Drained

(* Two queried channels were read to their ends in several calls while an  *)
(* unqueried channel held events.                                          *)
C25_BothChannelsRead ==
    /\ Read
    /\ ret.done
    /\ Queried = {"foo", "bar"}
    /\ Len(seen.got["foo"]) = MaxEvents
    /\ Len(seen.got["bar"]) = MaxEvents
    /\ ret.max = 1
    /\ Len(Kept("baz")) > 0

(* C26: if no further queried events are available after a RenderedEvents  *)
(* call, that call returns done as true.                                   *)
C26_DoneWhenNothingLeft ==
    (Read /\ Drained) => ret.done

(* The events of channel k that the subscriber had not been handed when it *)
(* resumed, and those among them that lie after the cursor it started at.  *)
NotHandedBefore(k) ==
    SelectSeq(Kept(k), LAMBDA e : \A j \in 1..Len(seen.before[k]) : seen.before[k][j] # e)

PastStart(k) == SubSeq(Kept(k), seen.start[k] + 1, Len(Kept(k)))

(* The subscription was opened with the bookmark the subscriber took after *)
(* it had been handed events, and with the query of that time.             *)
Resumed ==
    /\ Subscribed
    /\ seen.resumed
    /\ \E k \in Channels : seen.before[k] # <<>>

(* C27: after rendering some events, taking b = Bookmark(), calling        *)
(* Close() and then Subscribe(b, sameQuery), the events rendered           *)
(* afterwards are exactly the queried events that were not rendered before *)
(* the Close, none repeated and none skipped.                              *)
C27_ResumeRendersTheRest ==
    (Resumed /\ Read /\ ret.done)
        => \A k \in Queried : seen.got[k] = NotHandedBefore(k)

(* C27, amended: after rendering some events, taking b = Bookmark(),       *)
(* calling Close() and then Subscribe(b, sameQuery), the events rendered   *)
(* afterwards are exactly the queried events that were not rendered before *)
(* the Close and lie after the cursors of the bookmark the first           *)
(* subscription was opened with, none repeated and none skipped.           *)
C27_ResumeRendersTheRestPastBookmark ==
    /\ (Resumed /\ ret.op = "Resume")
          => \A k \in Channels : Cursor(k) = seen.start[k] + Len(seen.before[k])
    /\ (Resumed /\ Read /\ ret.done)
          => \A k \in Queried :
                /\ seen.before[k] \o seen.got[k] = PastStart(k)
                /\ seen.got[k] = SelectSeq(NotHandedBefore(k),
                                           LAMBDA e : \E j \in 1..Len(PastStart(k)) :
                                                         PastStart(k)[j] = e)

(* A subscriber that had read one event of a channel resumed and read the  *)
(* other.                                                                  *)
C27_ResumedAndReadOn ==
    /\ Resumed
    /\ Read
    /\ ret.done
    /\ seen.before["foo"] = << Event("foo", 1) >>
    /\ seen.got["foo"] = << Event("foo", 2) >>

(* C28: WaitForSingleObject returns true exactly when the event signal is  *)
(* set: the signal is set by Subscribe when a queried channel holds at     *)
(* least one event and by every Append, it stays set across RenderedEvents *)
(* calls even after all events have been read, and it is cleared only by   *)
(* ResetEvent.                                                             *)
C28_SignalSteps ==
    /\ ret'.op = "WaitForSingleObject" => ret'.ok = api.eventSignalled
    /\ ret'.op = "Append" => api'.eventSignalled
    /\ ret'.op \in {"Subscribe", "Resume"}
          => api'.eventSignalled =
                (api.eventSignalled
                    \/ \E k \in QueriedBy(api') : Len(Get(api.Events, k, <<>>)) >= 1)
    /\ ret'.op = "ResetEvent" => ~api'.eventSignalled
    /\ ret'.op \in {"RenderedEvents", "Close", "Bookmark", "WaitForSingleObject"}
          => api'.eventSignalled = api.eventSignalled

C28_SignalSetAndCleared == [][C28_SignalSteps]_vars

(* The subscriber was told of events after it had read every one. *)
C28_SignalledWhenDrained ==
    /\ ret.op = "WaitForSingleObject"
    /\ ret.ok
    /\ Subscribed
    /\ Drained
    /\ \E k \in Queried : Len(seen.got[k]) > 0

----------------------------------------------------------------------------
(* Properties of powershell.Command. *)

(* strings.Contains(output, s) *)
ContainsText(output, s) ==
    \E i \in 1..(Len(output) - Len(s) + 1) : SubSeq(output, i, i + Len(s) - 1) = s

(* C29: Command returns an error wrapping ErrPowerShell when the           *)
(* PowerShell invocation itself fails, and an error wrapping               *)
(* ErrSupplemental whenever the invocation succeeds but its output         *)
(* contains any of the caller's supplemental strings; otherwise it returns *)
(* the output with a nil error.                                            *)
C29_CommandErrors ==
    ret.op = "Command"
        => LET a == ret.args
               flagged == \E i \in 1..Len(a.supplemental) :
                              ContainsText(a.output, a.supplemental[i])
           IN  /\ a.failed => ret.err = {ErrPowerShell}
               /\ (~a.failed /\ flagged) => ret.err = {ErrSupplemental}
               /\ (~a.failed /\ ~flagged) => (ret.err = {} /\ ret.out = a.output)

----------------------------------------------------------------------------
(* Properties of sequences of calls on one Device. *)

(* C30: On any sequence of operations on one Device, two successful        *)
(* Partition calls are always separated by a successful Wipe: once         *)
(* Partition has succeeded, every further Partition call is refused until  *)
(* Wipe succeeds, on every backend.                                        *)
C30_WipeBetweenPartitions == ret.since <= 1

----------------------------------------------------------------------------
(* Properties of two concurrent Mount calls. *)

(* C31: Mount reads the free access-path pool and then assigns with no     *)
(* locking: of two concurrent Mount calls on distinct unmounted partitions *)
(* with no requested path, the one that reads the pool before the other    *)
(* has assigned selects the same path, and each call that returns nil      *)
(* after its assignment has recorded the path it selected.                 *)
C31_UnlockedPoolRead ==
    /\ (/\ \A g \in Goroutines : ret.calls[g].pc = "picked" /\ ret.calls[g].letter = "")
           => ret.calls[1].available = ret.calls[2].available
    /\ \A g \in Goroutines :
          (ret.calls[g].pc = "done" /\ ret.calls[g].out = "nil" /\ ret.calls[g].available # "")
              => ret.calls[g].part.mount = ret.calls[g].available

(* Both calls returned nil and recorded the same access path. *)
C31_SamePathRecorded ==
    /\ \A g \in Goroutines :
          /\ ret.calls[g].pc = "done"
          /\ ret.calls[g].out = "nil"
          /\ ret.calls[g].letter = ""
          /\ ret.calls[g].available # ""
    /\ ret.calls[1].part.id # ret.calls[2].part.id
    /\ ret.calls[1].part.mount = ret.calls[2].part.mount

----------------------------------------------------------------------------
(* Properties of Wipe on linux. *)

(* The places of the command cmd among the calls of the last operation. *)
Issued(cmd) == {j \in 1..Len(ret.cmds) : ret.cmds[j].cmd = cmd}

(* The call the fault reached was a release: umount, or the removal of the *)
(* mount point the library made.                                           *)
ReleaseFailed ==
    /\ ret.flt.at > 0
    /\ ret.flt.at <= Len(ret.cmds)
    /\ ret.cmds[ret.flt.at].cmd \in {"umount", "os.RemoveAll"}

(* C32: On the Linux backend, Wipe releases every mounted partition of the *)
(* device before it issues the erase command, and if any release fails no  *)
(* erase command is issued and Wipe returns an error.                      *)
C32_WipeReleasesFirst ==
    (backend = "linux" /\ ret.op = "Wipe")
        => /\ \A j \in Issued("wipefs") :
                 \A i \in 1..Len(pre.partitions) :
                    pre.partitions[i].mount # ""
                        => \E u \in 1..(j - 1) :
                              /\ ret.cmds[u].cmd = "umount"
                              /\ ret.cmds[u].arg = pre.partitions[i].mount
           /\ ReleaseFailed => (Issued("wipefs") = {} /\ ret.out = "err")

(* Wipe released one partition and failed to release the next. *)
C32_SecondReleaseFailed ==
    /\ backend = "linux"
    /\ ret.op = "Wipe"
    /\ ReleaseFailed
    /\ ret.cmds[ret.flt.at].cmd = "umount"
    /\ \E u \in 1..(ret.flt.at - 1) : ret.cmds[u].cmd = "umount"

----------------------------------------------------------------------------
(* Properties of Search and the detection it runs. *)

(* The call at place j of the last operation belongs to the                *)
(* DetectPartitions that Search runs on a device it enumerated.            *)
DetectionCall(j) ==
    CASE backend = "linux" -> ret.cmds[j].cmd = "lsblk"
      [] backend = "darwin" -> ret.cmds[j].cmd = "diskutil list" /\ j > 1
      [] backend = "windows" ->
             \/ ret.cmds[j].cmd \in {"GetPartitions", "GetVolumes"}
             \/ ret.cmds[j].cmd = "Connect" /\ j > 1

(* The listings of partitions Search asked for. *)
Detections ==
    {j \in 1..Len(ret.cmds) :
        /\ DetectionCall(j)
        /\ ret.cmds[j].cmd \in {"lsblk", "diskutil list", "GetPartitions"}}

(* A call of a detection failed: it returned an error, bytes that do not   *)
(* decode, or (GetVolumes) no volume.                                      *)
DetectionFailed ==
    /\ ret.flt.at > 0
    /\ ret.flt.at <= Len(ret.cmds)
    /\ DetectionCall(ret.flt.at)
    /\ \/ ret.flt.mode \in {"err", "bad"}
       \/ ret.flt.mode = "empty" /\ ret.cmds[ret.flt.at].cmd = "GetVolumes"

(* C33: Search returns either an error with no devices, or a list in which *)
(* every Device has had partition detection run successfully; a detection  *)
(* failure on any single enumerated device that reaches detection fails    *)
(* the whole Search with no partial result.                                *)
C33_SearchAllOrNothing ==
    ret.op = "Search"
        => /\ ret.out \in {"nil", "err"}
           /\ ret.out = "err" => found = <<>>
           /\ ret.out = "nil" => (~DetectionFailed /\ Cardinality(Detections) >= Len(found))
           /\ DetectionFailed => (ret.out = "err" /\ found = <<>>)

----------------------------------------------------------------------------
(* Properties of the sizes Partition passes to the backend (windows). *)

(* C34: For every device size s, Partition(label) on the Windows backend   *)
(* asks the backend for useMaximumSize = true with size 0 when             *)
(* s <= 30648342272, and for an explicit size of exactly 30648342272 with  *)
(* useMaximumSize = false when s > 30648342272; PartitionWithOptions never *)
(* passes an explicit size >= the device size, and passes                  *)
(* useMaximumSize = true exactly when the size it passes is 0.             *)
C34_SizesPassed ==
    (backend = "windows" /\ ret.op \in {"Partition", "PartitionWithOptions"})
        => \A j \in Issued("CreatePartition") :
              LET size == ret.cmds[j].arg[1]
                  useMaximumSize == ret.cmds[j].arg[2]
              IN  /\ (ret.op = "Partition" /\ pre.size <= maxWinFAT32Size)
                         => (useMaximumSize /\ size = 0)
                  /\ (ret.op = "Partition" /\ pre.size > maxWinFAT32Size)
                         => (~useMaximumSize /\ size = maxWinFAT32Size)
                  /\ size > 0 => size < pre.size
                  /\ useMaximumSize <=> size = 0

(* Partition reached the backend for a device of exactly maxPartSize, and  *)
(* for it PartitionWithOptions was asked for the size of the device.       *)
C34_AtTheCap ==
    /\ backend = "windows"
    /\ ret.op = "Partition"
    /\ pre.size = maxPartSize
    /\ Issued("CreatePartition") # {}
    /\ ret.out = "nil"

----------------------------------------------------------------------------
(* Properties of freeDrive. *)

(* The letters of the pool. *)
InPool(available) == {available[i] : i \in 1..Len(available)}

(* C35: freeDrive(requested) returns a resource-unavailable error when the *)
(* available pool is empty (whether or not a letter was requested),        *)
(* requested itself when it is non-empty and in the pool, a drive-letter   *)
(* error when it is non-empty and not in the pool, and the first element   *)
(* of the pool when requested is empty; a returned letter is always a      *)
(* member of the pool.                                                     *)
C35_FreeDrive ==
    ret.op = "freeDrive"
        => LET requested == ret.args.requested
               available == ret.args.available
           IN  /\ available = <<>> => (ret.err = errOSResource /\ ret.letter = "")
               /\ (available # <<>> /\ requested # "" /\ requested \in InPool(available))
                      => (ret.err = "" /\ ret.letter = requested)
               /\ (available # <<>> /\ requested # "" /\ requested \notin InPool(available))
                      => (ret.err = errDriveLetter /\ ret.letter = "")
               /\ (available # <<>> /\ requested = "")
                      => (ret.err = "" /\ ret.letter = available[1])
               /\ ret.err = "" => ret.letter \in InPool(available)

(* The letter asked for was free, and not the first of the pool. *)
C35_RequestedGranted ==
    /\ ret.op = "freeDrive"
    /\ ret.err = ""
    /\ ret.args.requested # ""
    /\ ret.letter = ret.args.requested
    /\ ret.args.available[1] # ret.args.requested

----------------------------------------------------------------------------
(* Properties of the *Partition that SelectPartition returned. *)

(* The entries of device.partitions for the partition the caller holds. *)
EntriesOf(d, part) == {i \in 1..Len(d.partitions) : d.partitions[i].id = part.id}

(* Mount acquired an access path for a partition that had none. *)
MountAcquired(out, before, cmds) == out = "nil" /\ before.mount = "" /\ cmds # <<>>

(* The calls of the last operation that release the access path m. *)
ReleasesOf(m) ==
    {j \in 1..Len(ret.cmds) :
        \/ ret.cmds[j].cmd \in {"umount", "Remove-PartitionAccessPath"} /\ ret.cmds[j].arg = m
        \/ ret.cmds[j].cmd = "diskutil unmountDisk"}

(* Mount on the *Partition held set its mount and left the Device alone. *)
MountDetached ==
    (ret.op = "Mount" /\ MountAcquired(ret.out, ret.args[2], ret.cmds))
        => /\ ret.part.mount # ""
           /\ \A i \in EntriesOf(dev, ret.part) : dev.partitions[i].mount = ""

(* The Dismount that follows releases nothing for the path Mount recorded. *)
DismountMissesPath ==
    (ret.op = "Dismount" /\ ret.part # ZeroPartition
        /\ MountAcquired(ret.args[1], ret.args[2], ret.args[3]))
        => ReleasesOf(ret.part.mount) = {}

(* C36: The *Partition returned by SelectPartition is a copy detached from *)
(* the Device: a subsequent Mount on it sets the returned value's mount    *)
(* but leaves the corresponding entry in device.partitions unchanged, so a *)
(* following Device.Dismount without redetection issues no release for     *)
(* that access path.                                                       *)
C36_DetachedCopy == MountDetached /\ DismountMissesPath

(* C36, amended: as C36 on linux and windows; on darwin Mount leaves the   *)
(* mount of the returned value empty as well, and the Dismount that        *)
(* follows unmounts the whole disk.                                        *)
C36_DetachedCopyByBackend ==
    /\ backend \in {"linux", "windows"} => C36_DetachedCopy
    /\ (backend = "darwin" /\ ret.op = "Mount" /\ MountAcquired(ret.out, ret.args[2], ret.cmds))
           => /\ ret.part.mount = ""
              /\ \A i \in EntriesOf(dev, ret.part) : dev.partitions[i].mount = ""
    /\ (backend = "darwin" /\ ret.op = "Dismount" /\ ret.part # ZeroPartition
           /\ MountAcquired(ret.args[1], ret.args[2], ret.args[3]) /\ ret.out = "nil")
           => ReleasesOf(ret.part.mount) # {}

(* Dismount returned nil after a Mount that recorded a path the Device     *)
(* does not know of.                                                       *)
C36_DismountedWithoutRelease ==
    /\ backend \in {"linux", "windows"}
    /\ ret.op = "Dismount"
    /\ ret.out = "nil"
    /\ ret.part # ZeroPartition
    /\ MountAcquired(ret.args[1], ret.args[2], ret.args[3])
    /\ ret.part.mount # ""
    /\ ret.cmds = <<>>

----------------------------------------------------------------------------
(* Properties of a Wipe that returns an error. *)

WipeFailed == ret.op = "Wipe" /\ ret.out = "err"

(* Wipe released the mount point m before it failed. *)
ReleasedBeforeFailure(m) ==
    \E u \in 1..Len(ret.cmds) :
        /\ ret.cmds[u].cmd = "umount"
        /\ ret.cmds[u].arg = m
        /\ u # ret.flt.at

(* C37: If Wipe returns an error, the device's partitionStyle and the set  *)
(* of entries in its partitions list are exactly as before the call:       *)
(* partitions is cleared and the style changed only on the success path,   *)
(* including when the erase itself succeeded and only the style conversion *)
(* failed.                                                                 *)
C37_FailedWipeKeepsDevice ==
    WipeFailed => (dev.partStyle = pre.partStyle /\ dev.partitions = pre.partitions)

(* C37, amended: the style and the partitions listed are as before the     *)
(* call; on linux the entries of the partitions that Wipe released before  *)
(* it failed have their mount cleared, and nothing else differs.           *)
C37_FailedWipeKeepsEntries ==
    WipeFailed
        => /\ dev.partStyle = pre.partStyle
           /\ Len(dev.partitions) = Len(pre.partitions)
           /\ \A i \in 1..Len(pre.partitions) :
                 \/ dev.partitions[i] = pre.partitions[i]
                 \/ /\ backend = "linux"
                    /\ pre.partitions[i].mount # ""
                    /\ ReleasedBeforeFailure(pre.partitions[i].mount)
                    /\ dev.partitions[i] = [pre.partitions[i] EXCEPT !.mount = ""]
           /\ backend # "linux" => dev = pre

(* The disk was cleared and the conversion of its style failed. *)
C37_ConversionFailed ==
    /\ backend = "windows"
    /\ WipeFailed
    /\ ret.flt.at > 0
    /\ ret.flt.at = Len(ret.cmds)
    /\ ret.cmds[ret.flt.at].cmd = "ConvertStyle"
    /\ pre.partitions # <<>>
    /\ disk.parts = <<>>

----------------------------------------------------------------------------
(* Properties of simple.WindowsEvent. *)

(* Subscribe takes the value e for unsubscribed. *)
Unsubscribed(e) == e.config = 0 /\ e.subscription = 0

(* C38: A WindowsEvent accepts Subscribe only when unsubscribed: Subscribe *)
(* on an already-subscribed value fails and leaves the existing            *)
(* subscription untouched, and after a Subscribe that returns an error, or *)
(* after a successful Close, the value is back in the unsubscribed state,  *)
(* so a later Subscribe is not rejected as double-subscribed and Close     *)
(* releases each handle at most once.                                      *)
C38_SubscribeOnlyWhenUnsubscribed ==
    /\ (ret.op = "Subscribe" /\ ~Unsubscribed(ret.before))
           => (ret.err /\ api = ret.before)
    /\ (ret.op = "Subscribe" /\ Unsubscribed(ret.before) /\ ret.err) => Unsubscribed(api)
    /\ (ret.op = "Close" /\ ~ret.err) => Unsubscribed(api)
    /\ \A n \in 1..api.made : api.cfgClosed[n] <= 1 /\ api.subClosed[n] <= 1

====
